---- MODULE Spec2Model ----
(***************************************************************************)
(* Automation subsystem of inbox-copilot: the Table Store                  *)
(* (backend/automations/tables.py), the Automation Engine                  *)
(* (backend/automations/engine.py) and the Scheduler                       *)
(* (backend/automations/scheduler.py), over an abstract document store     *)
(* whose single-document updates are atomic.                               *)
(*                                                                         *)
(* Conventions.  A collection is a function from the ids of its documents  *)
(* to the documents.  ObjectIds are drawn from counters and never reused.  *)
(* A null id or a null timestamp is 0, a null string is None.  A cell of a *)
(* row is a pair <<kind, value>>: <<"num", n>> is a number, <<"str", 0>>   *)
(* a value that is not a number and <<"absent", 0>> a missing key.         *)
(* Timestamps are logical: the time of a run is the number of run records  *)
(* inserted so far.                                                        *)
(***************************************************************************)
EXTENDS Integers, Sequences, FiniteSets, TLC

VARIABLES
    automations,        \* db.automations: automation id -> document
    automation_runs,    \* db.automation_runs: run id (position) -> document
    tables,             \* db.tables: table id -> document
    scheduler,          \* AutomationScheduler.scheduler: "none", "running", "stopped"
    started,            \* AutomationScheduler._started
    engine,             \* AutomationScheduler.engine is set
    jobs,               \* jobs held by the current scheduler object: id -> count
    nextAutomationId,   \* next ObjectId of db.automations
    nextTableId,        \* next ObjectId of db.tables
    nextRowId,          \* next ObjectId of a table row
    result,             \* value returned by the last operation
    inflight,           \* coroutine -> the engine call it is suspended in
    parsed              \* last text given to parse_automation_request and its value

vars == <<automations, automation_runs, tables, scheduler, started, engine,
          jobs, nextAutomationId, nextTableId, nextRowId, result,
          inflight, parsed>>


\* ---------------------------------------------------------------- bounds
MaxAutomations == 2     \* automations ever created
MaxTables == 2          \* tables ever created
MaxRows == 2            \* rows ever created
MaxRuns == 2            \* run records ever created
MaxBatch == 2           \* rows of one add_rows_bulk call on the Table Store
MaxEngineAutomations == 1   \* automations ever created under SpecEngine
MaxUserTables == 1      \* tables ever created by the user through create_table
MaxLifecycleRuns == 1   \* run records ever created under SpecLifecycle and SpecFire

None == "none"
NoId == 0
NoTime == 0

AutomationIds == 1..MaxAutomations
TableIds == 1..MaxTables

\* ------------------------------------------------------------ Table Store
Num(n) == <<"num", n>>
NotANumber == <<"str", 0>>
Absent == <<"absent", 0>>

\* "montant" in data and isinstance(data["montant"], (int, float))
IsNumericAmount(data) == data.montant[1] = "num"

\* the row document built by add_row and add_rows_bulk
NewRow(row_id, data, source_email_id, source_automation_id) ==
    [id |-> row_id, data |-> data, source_email_id |-> source_email_id,
     source_automation_id |-> source_automation_id]

\* the table document inserted by create_table
NewTable(automation_id) ==
    [rows |-> <<>>, total_amount |-> 0, automation_id |-> automation_id]

create_table(tbls, table_id, automation_id) ==
    (table_id :> NewTable(automation_id)) @@ tbls

\* add_row: one update_one that pushes the row and increments the total
add_row_noinc(tbls, table_id, row_id, data, source_email_id, source_automation_id) ==
    IF table_id \notin DOMAIN tbls THEN tbls
    ELSE [tbls EXCEPT ![table_id].rows =
            Append(@, NewRow(row_id, data, source_email_id, source_automation_id))]

add_row(tbls, table_id, row_id, data, source_email_id, source_automation_id) ==
    IF table_id \notin DOMAIN tbls THEN tbls
    ELSE [tbls EXCEPT
            ![table_id].rows =
                Append(@, NewRow(row_id, data, source_email_id, source_automation_id)),
            ![table_id].total_amount =
                IF IsNumericAmount(data) THEN @ + data.montant[2] ELSE @]

\* the rows and the batch total accumulated by the loop of add_rows_bulk
RECURSIVE BulkRows(_, _, _)
BulkRows(rows_data, first_row_id, source_automation_id) ==
    IF rows_data = <<>> THEN <<>>
    ELSE <<NewRow(first_row_id, Head(rows_data), Head(rows_data).email_id,
                  source_automation_id)>>
         \o BulkRows(Tail(rows_data), first_row_id + 1, source_automation_id)

RECURSIVE BulkTotal(_)
BulkTotal(rows_data) ==
    IF rows_data = <<>> THEN 0
    ELSE (IF IsNumericAmount(Head(rows_data)) THEN Head(rows_data).montant[2] ELSE 0)
         + BulkTotal(Tail(rows_data))

\* add_rows_bulk: one update_one with $push $each and $inc
add_rows_bulk_rows_only(tbls, table_id, rows_data, first_row_id, source_automation_id) ==
    IF rows_data = <<>> \/ table_id \notin DOMAIN tbls THEN tbls
    ELSE [tbls EXCEPT ![table_id].rows =
            @ \o BulkRows(rows_data, first_row_id, source_automation_id)]

add_rows_bulk(tbls, table_id, rows_data, first_row_id, source_automation_id) ==
    IF rows_data = <<>> \/ table_id \notin DOMAIN tbls THEN tbls
    ELSE [tbls EXCEPT
            ![table_id].rows =
                @ \o BulkRows(rows_data, first_row_id, source_automation_id),
            ![table_id].total_amount = @ + BulkTotal(rows_data)]

\* check_duplicate: find_one on {_id, rows.source_email_id}
check_duplicate(tbls, table_id, email_id) ==
    /\ table_id \in DOMAIN tbls
    /\ \E i \in 1..Len(tbls[table_id].rows) :
          tbls[table_id].rows[i].source_email_id = email_id

HasRow(tbls, table_id, row_id) ==
    /\ table_id \in DOMAIN tbls
    /\ \E i \in 1..Len(tbls[table_id].rows) : tbls[table_id].rows[i].id = row_id

\* position matched by the positional operator rows.$ (the first match)
RowIndex(rows, row_id) ==
    CHOOSE i \in 1..Len(rows) :
        /\ rows[i].id = row_id
        /\ \A j \in 1..(i - 1) : rows[j].id # row_id

\* update_row: $set rows.$.data, the total is not touched
update_row(tbls, table_id, row_id, data) ==
    IF ~HasRow(tbls, table_id, row_id) THEN tbls
    ELSE [tbls EXCEPT
            ![table_id].rows[RowIndex(tbls[table_id].rows, row_id)].data = data]

\* toggle_paid: read rows.$.data.payee, then $set its negation
toggle_paid(tbls, table_id, row_id) ==
    IF ~HasRow(tbls, table_id, row_id) THEN tbls
    ELSE [tbls EXCEPT
            ![table_id].rows[RowIndex(tbls[table_id].rows, row_id)].data.payee = ~@]

\* delete_row: $pull {id: row_id}, the total is not touched
RECURSIVE PullRow(_, _)
PullRow(rows, row_id) ==
    IF rows = <<>> THEN <<>>
    ELSE IF Head(rows).id = row_id THEN PullRow(Tail(rows), row_id)
    ELSE <<Head(rows)>> \o PullRow(Tail(rows), row_id)

\* a delete_row that takes the amount of the removed row off the total
delete_row_adjusts_total(tbls, table_id, row_id) ==
    IF table_id \notin DOMAIN tbls THEN tbls
    ELSE [tbls EXCEPT
            ![table_id].rows = PullRow(@, row_id),
            ![table_id].total_amount =
                IF HasRow(tbls, table_id, row_id)
                      /\ IsNumericAmount(
                             tbls[table_id].rows[RowIndex(tbls[table_id].rows,
                                                          row_id)].data)
                THEN @ - tbls[table_id].rows[RowIndex(tbls[table_id].rows,
                                                      row_id)].data.montant[2]
                ELSE @]

delete_row(tbls, table_id, row_id) ==
    IF table_id \notin DOMAIN tbls THEN tbls
    ELSE [tbls EXCEPT ![table_id].rows = PullRow(@, row_id)]

delete_table(tbls, table_id) ==
    [t \in DOMAIN tbls \ {table_id} |-> tbls[t]]

\* row.get("data", {}).get("montant", 0): the number, 0 for a missing key
MontantOrZero(row) ==
    IF row.data.montant[1] = "num" THEN row.data.montant[2] ELSE 0

RECURSIVE SumMontant(_)
SumMontant(rows) ==
    IF rows = <<>> THEN 0 ELSE MontantOrZero(Head(rows)) + SumMontant(Tail(rows))

\* the rows r with r.get("data", {}).get("payee", False)
PaidRows(rows) == SelectSeq(rows, LAMBDA r : r.data.payee)

\* get_table_stats: {} for a table that does not exist; the total is the
\* stored total_amount, the unpaid amount the total less the paid amount;
\* adding a montant that is not a number to by_vendor raises TypeError
get_table_stats(tbls, table_id) ==
    IF table_id \notin DOMAIN tbls
    THEN [empty |-> TRUE, raised |-> FALSE]
    ELSE LET rows == tbls[table_id].rows
             total == tbls[table_id].total_amount
             vendors == {rows[k].data.fournisseur : k \in 1..Len(rows)}
             paid == PaidRows(rows)
         IN  IF \E k \in 1..Len(rows) : rows[k].data.montant[1] = "str"
             THEN [empty |-> FALSE, raised |-> TRUE]
             ELSE [empty |-> FALSE, raised |-> FALSE,
                   row_count |-> Len(rows),
                   total_amount |-> total,
                   by_vendor |->
                       [v \in vendors |->
                           LET of_v == SelectSeq(rows,
                                           LAMBDA r : r.data.fournisseur = v)
                           IN  [count |-> Len(of_v), total |-> SumMontant(of_v)]],
                   paid_count |-> Len(paid),
                   paid_amount |-> SumMontant(paid),
                   unpaid_count |-> Len(rows) - Len(paid),
                   unpaid_amount |-> total - SumMontant(paid)]

\* the return values of the operations (uniform shape)
Ret(op, id, success, error, emails_processed, rows_added) ==
    [op |-> op, id |-> id, success |-> success, error |-> error,
     emails_processed |-> emails_processed, rows_added |-> rows_added]


\* ------------------------------------------------------- Request Parser
Star == -1              \* the field "*" of a cron expression
NoDay == -1             \* day_of_week is None

\* a trigger whose weekly expression always names Monday
BuildCron_weekly_on_monday(frequency, day_of_week, hour) ==
    IF frequency = "daily" THEN <<0, hour, Star, Star, Star>>
    ELSE IF frequency = "monthly" THEN <<0, hour, 1, Star, Star>>
    ELSE <<0, hour, Star, Star, 0>>

\* parse_automation_request, "Build trigger": the cron expression as its
\* five fields <<minute, hour, day, month, day_of_week>>
BuildCron(frequency, day_of_week, hour) ==
    IF frequency = "daily" THEN <<0, hour, Star, Star, Star>>
    ELSE IF frequency = "weekly"
    THEN <<0, hour, Star, Star, IF day_of_week # NoDay THEN day_of_week ELSE 0>>
    ELSE IF frequency = "monthly" THEN <<0, hour, 1, Star, Star>>
    ELSE <<0, hour, Star, Star, 0>>

\* extract_hour: the one or two digits N of "a Nh" as they stand, else 9 for
\* "matin", 18 for "soir", else 9
NoDigits == -1
extract_hour(digits, word) ==
    IF digits # NoDigits THEN digits
    ELSE IF word = "matin" THEN 9
    ELSE IF word = "soir" THEN 18
    ELSE 9

\* what extract_vendors, extract_frequency and extract_hour find in the
\* texts of the requests that are submitted: "chaque lundi matin ..." and
\* "chaque mois a 25h ..."
Requests ==
    { [vendors |-> <<"metro", "brake">>, frequency |-> "weekly", day_of_week |-> 0,
       hour |-> extract_hour(NoDigits, "matin")],
      [vendors |-> <<"distram">>, frequency |-> "monthly",
       day_of_week |-> NoDay, hour |-> extract_hour(25, "")] }

\* AutomationTrigger built by parse_automation_request
ParseTrigger(req) ==
    [type |-> "schedule",
     cron |-> BuildCron(req.frequency, req.day_of_week, req.hour),
     frequency |-> req.frequency, day_of_week |-> req.day_of_week,
     hour |-> req.hour, minute |-> 0]

\* The texts given to the parser, word by word.  The words are written in
\* ASCII: "cr_eacute_e" is the verb whose second vowel is e with an acute
\* accent and "a_grave" the preposition a with a grave accent, as a user
\* types them.
MaxWords == 4           \* words of a text

Words ==
    {"cr_eacute_e", "fais", "une", "automatisation", "automatise", "chaque", "tous",
     "les", "mois", "jours", "jeudi", "samedi", "metro", "a", "a_grave",
     "14h",
     "25h", "soir"}

Texts(n) == [1..n -> Words]

Has(text, w) == \E i \in 1..Len(text) : text[i] = w

\* text[i], or "" past the end of the text
WordAt(text, i) == IF i \in 1..Len(text) THEN text[i] ELSE ""

\* extract_vendors: the keys of KNOWN_VENDORS of which an alias occurs
extract_vendors(text) == IF Has(text, "metro") THEN <<"metro">> ELSE <<>>

\* the number of the first name of DAY_MAPPING that occurs in the text
DayNames == <<"lundi", "mardi", "mercredi", "jeudi", "vendredi", "samedi", "dimanche">>

DaysIn(text) == {d \in 1..Len(DayNames) : Has(text, DayNames[d])}

\* re.search of a pattern "first\s+second..." of FREQUENCY_PATTERNS
Follows(text, first, seconds) ==
    \E i \in 1..Len(text) : text[i] = first /\ WordAt(text, i + 1) \in seconds

TousLes(text, thirds) ==
    \E i \in 1..Len(text) :
        text[i] = "tous" /\ WordAt(text, i + 1) = "les" /\ WordAt(text, i + 2) \in thirds

\* extract_frequency: <<frequency, day_of_week>>
extract_frequency(text) ==
    IF DaysIn(text) # {}
    THEN <<"weekly", (CHOOSE d \in DaysIn(text) : \A e \in DaysIn(text) : d <= e) - 1>>
    ELSE IF Follows(text, "chaque", {"jour", "jours"}) \/ TousLes(text, {"jours"})
    THEN <<"daily", NoDay>>
    ELSE IF Follows(text, "chaque", {"semaine", "semaines"})
            \/ TousLes(text, {"semaine", "semaines"})
    THEN <<"weekly", NoDay>>
    ELSE IF Follows(text, "chaque", {"mois"}) \/ TousLes(text, {"mois"})
    THEN <<"monthly", NoDay>>
    ELSE <<"weekly", 0>>

\* the digits N of a word "Nh"
HourOfWord(w) ==
    IF w = "14h" THEN 14 ELSE IF w = "25h" THEN 25 ELSE NoDigits

\* the class of the pattern of extract_hour holds the letter a and the two
\* characters that the source file stores in place of the accented letter;
\* the accented letter itself is not in it
EndsInClass(w) == w = "a"

\* re.search of the pattern of extract_hour: the digits of its first match
HourMatches(text) ==
    {i \in 2..Len(text) : EndsInClass(text[i - 1]) /\ HourOfWord(text[i]) # NoDigits}

HourDigits(text) ==
    IF HourMatches(text) = {} THEN NoDigits
    ELSE HourOfWord(text[CHOOSE i \in HourMatches(text) :
                             \A j \in HourMatches(text) : i <= j])

\* "matin" in text / "soir" in text
DayPart(text) ==
    IF Has(text, "matin") THEN "matin" ELSE IF Has(text, "soir") THEN "soir" ELSE ""

\* detect_automation_intent.  The verbs of the first pattern that the source
\* file stores with an accent hold, in place of the accented letter, the
\* two characters its bytes give in another encoding, and match no verb a
\* user types; so does the fifth pattern.  The sixth to eighth patterns need
\* "surveille", "envoi" or "tableau", which Words does not hold.
CreationVerbs == {"fais", "faire", "met", "mets", "mettre"}

Articles == {"un", "une", "le", "la"}

detect_automation_intent(text) ==
    \/ \E i \in 1..Len(text) :
          /\ text[i] \in CreationVerbs
          /\ \/ WordAt(text, i + 1) = "automatisation"
             \/ /\ WordAt(text, i + 1) \in Articles
                /\ WordAt(text, i + 2) = "automatisation"
    \/ Has(text, "automatise")
    \/ Follows(text, "chaque",
               {"semaine", "jour", "jours", "mois", "lundi", "mardi", "mercredi",
                "jeudi", "vendredi"})
    \/ TousLes(text, {"jours", "semaines", "mois", "lundi", "lundis", "mardi",
                      "mardis"})

\* parse_automation_request returns None
NoConfig == [null |-> TRUE]

\* parse_automation_request
parse_automation_request(text) ==
    IF ~detect_automation_intent(text) THEN NoConfig
    ELSE LET f == extract_frequency(text)
             req == [vendors |-> extract_vendors(text), frequency |-> f[1],
                     day_of_week |-> f[2],
                     hour |-> extract_hour(HourDigits(text), DayPart(text))]
         IN  [null |-> FALSE, vendors |-> req.vendors, trigger |-> ParseTrigger(req)]

\* nothing has been parsed yet
NoParsed == [text |-> <<>>, config |-> NoConfig]

\* ------------------------------------------------------------ Scheduler
\* CronTrigger(minute, hour, day, month, day_of_week) raises ValueError when
\* a field is out of its range
FieldOk(v, lo, hi) == v = Star \/ (lo <= v /\ v <= hi)

CronTriggerOk(parts) ==
    /\ FieldOk(parts[1], 0, 59)
    /\ FieldOk(parts[2], 0, 23)
    /\ FieldOk(parts[3], 1, 31)
    /\ FieldOk(parts[4], 1, 12)
    /\ FieldOk(parts[5], 0, 6)

\* CronTrigger(hour=9, day_of_week=0)
DefaultTrigger == <<0, 9, Star, Star, 0>>

\* trigger.get_next_fire_time(None, now): the weekday, hour and minute of
\* the next occurrence
NextFireTime(trigger) == <<trigger[5], trigger[2], trigger[1]>>
NoFireTime == <<>>

NoJobs == [a \in AutomationIds |-> 0]

\* existing = get_job(id); if existing: remove_job(id)
remove_existing(js, automation_id) ==
    IF js[automation_id] > 0 THEN [js EXCEPT ![automation_id] = @ - 1] ELSE js

\* add_job(..., id=automation_id, replace_existing=True)
add_job(js, automation_id) ==
    IF js[automation_id] > 0 THEN js ELSE [js EXCEPT ![automation_id] = 1]

\* schedule_automation: the outcome as [ok, jobs, automations]
schedule_automation_second_timer(sched, js, autos, automation_id, automation) ==
    LET cron == automation.trigger.cron
        trigger == IF Len(cron) >= 5 THEN cron ELSE DefaultTrigger
    IN  IF sched = "none" \/ (Len(cron) >= 5 /\ ~CronTriggerOk(cron))
        THEN [ok |-> FALSE, jobs |-> js, automations |-> autos]
        ELSE [ok |-> TRUE, jobs |-> [js EXCEPT ![automation_id] = @ + 1],
              automations |->
                  IF automation_id \in DOMAIN autos
                  THEN [autos EXCEPT ![automation_id].next_run = NextFireTime(trigger)]
                  ELSE autos]

schedule_automation(sched, js, autos, automation_id, automation) ==
    LET cron == automation.trigger.cron
        trigger == IF Len(cron) >= 5 THEN cron ELSE DefaultTrigger
    IN  IF sched = "none"
        THEN [ok |-> FALSE, jobs |-> js, automations |-> autos]
        ELSE IF Len(cron) >= 5 /\ ~CronTriggerOk(cron)
        THEN [ok |-> FALSE, jobs |-> js, automations |-> autos]
        ELSE [ok |-> TRUE,
              jobs |-> add_job(remove_existing(js, automation_id), automation_id),
              automations |->
                  IF automation_id \in DOMAIN autos
                  THEN [autos EXCEPT ![automation_id].next_run = NextFireTime(trigger)]
                  ELSE autos]

\* unschedule_automation: remove_job, a JobLookupError is caught
unschedule_automation(sched, js, automation_id) ==
    IF sched # "none" /\ js[automation_id] > 0
    THEN [js EXCEPT ![automation_id] = @ - 1]
    ELSE js

\* _load_automations: schedule every document with status active
RECURSIVE LoadAutomations(_, _, _, _)
LoadAutomations(ids, sched, js, autos) ==
    IF ids = {} THEN [jobs |-> js, automations |-> autos]
    ELSE LET id == CHOOSE i \in ids : \A j \in ids : i <= j
             s == schedule_automation(sched, js, autos, id, autos[id])
         IN  LoadAutomations(ids \ {id}, sched, s.jobs, s.automations)

ActiveIds(autos) == {a \in DOMAIN autos : autos[a].status = "active"}


\* -------------------------------------------------------- Email Gateway
\* The messages of the mailbox: whether get_email_by_id returns the message
\* and its attachments; cgv: the filename carries "cgv" or "condition",
\* pdf: the attachment is a PDF, total: the total that extract_invoice_data
\* finds in it (0: none).
Att(cgv, pdf, total) == [cgv |-> cgv, pdf |-> pdf, total |-> total]

Mailbox ==
    [m \in {"m1", "m2", "m3"} |->
        IF m = "m1"
        THEN [readable |-> TRUE,
              attachments |-> <<Att(TRUE, TRUE, 9), Att(FALSE, TRUE, 5),
                                Att(FALSE, TRUE, 7)>>]
        ELSE IF m = "m2"
        THEN [readable |-> TRUE,
              attachments |-> <<Att(FALSE, FALSE, 4), Att(FALSE, TRUE, 0),
                                Att(FALSE, TRUE, 3)>>]
        ELSE [readable |-> FALSE, attachments |-> <<>>]]

\* what one call of search_emails can do: raise, or return these messages
SearchFails == <<"raise">>
SearchResults == {SearchFails, <<"m1">>, <<"m3", "m2", "m1">>}

\* db.learned_senders, which the subsystem only reads
LearnedSenders == [v \in {"metro"} |-> <<"compta@metro.fr">>]

\* _get_vendor_emails: the learned sender, else the default mapping, else
\* the vendor itself
get_vendor_emails(vendor) ==
    IF vendor \in DOMAIN LearnedSenders THEN LearnedSenders[vendor]
    ELSE IF vendor = "distram" THEN <<"facturation@distram.com">>
    ELSE IF vendor = "promocash" THEN <<"no-reply@promocash.com">>
    ELSE IF vendor = "metro" THEN <<"factures@metro.fr">>
    ELSE <<vendor>>

RECURSIVE AddressesOf(_)
AddressesOf(vendors) ==
    IF vendors = <<>> THEN {}
    ELSE {get_vendor_emails(Head(vendors))[i] :
             i \in 1..Len(get_vendor_emails(Head(vendors)))}
         \cup AddressesOf(Tail(vendors))

\* vendor.title()
Title(vendor) ==
    IF vendor = "distram" THEN "Distram"
    ELSE IF vendor = "metro" THEN "Metro"
    ELSE IF vendor = "brake" THEN "Brake"
    ELSE vendor

\* ---------------------------------------------------- Automation Engine
\* a loop over the attachments that goes on after the first invoice
RECURSIVE ScanAttachments_every_pdf(_, _, _)
ScanAttachments_every_pdf(atts, email_id, vendor) ==
    IF atts = <<>> THEN <<>>
    ELSE LET att == Head(atts) IN
         IF att.cgv THEN ScanAttachments_every_pdf(Tail(atts), email_id, vendor)
         ELSE IF att.pdf /\ att.total # 0
         THEN <<[fournisseur |-> Title(vendor), montant |-> Num(att.total),
                 email_id |-> email_id, payee |-> FALSE]>>
              \o ScanAttachments_every_pdf(Tail(atts), email_id, vendor)
         ELSE ScanAttachments_every_pdf(Tail(atts), email_id, vendor)

\* the loop over the attachments of one message: the rows it contributes
RECURSIVE ScanAttachments(_, _, _)
ScanAttachments(atts, email_id, vendor) ==
    IF atts = <<>> THEN <<>>
    ELSE LET att == Head(atts) IN
         IF att.cgv THEN ScanAttachments(Tail(atts), email_id, vendor)
         ELSE IF att.pdf /\ att.total # 0
         THEN <<[fournisseur |-> Title(vendor), montant |-> Num(att.total),
                 email_id |-> email_id, payee |-> FALSE]>>
         ELSE ScanAttachments(Tail(atts), email_id, vendor)

\* the body of "for email in emails": count, dedup check, extraction
RECURSIVE ProcessEmails(_, _, _, _, _)
ProcessEmails(emails, vendor, table_id, tbls, acc) ==
    IF emails = <<>> THEN acc
    ELSE LET email_id == Head(emails)
             counted == [acc EXCEPT !.emails_processed = @ + 1]
             is_duplicate ==
                 table_id # NoId /\ check_duplicate(tbls, table_id, email_id)
             found ==
                 IF Mailbox[email_id].readable
                 THEN ScanAttachments(Mailbox[email_id].attachments, email_id, vendor)
                 ELSE <<>>
             next == IF is_duplicate THEN counted
                     ELSE [counted EXCEPT !.all_invoices = @ \o found]
         IN  ProcessEmails(Tail(emails), vendor, table_id, tbls, next)

\* the body of "for vendor_email in vendor_emails": a failed search is skipped
RECURSIVE SearchAddresses(_, _, _, _, _, _)
SearchAddresses(addresses, vendor, table_id, tbls, gateway, acc) ==
    IF addresses = <<>> THEN acc
    ELSE LET emails == gateway[Head(addresses)]
             next == IF emails = SearchFails THEN acc
                     ELSE ProcessEmails(emails, vendor, table_id, tbls, acc)
         IN  SearchAddresses(Tail(addresses), vendor, table_id, tbls, gateway, next)

\* the body of "for vendor in vendors"
RECURSIVE SearchVendors(_, _, _, _, _)
SearchVendors(vendors, table_id, tbls, gateway, acc) ==
    IF vendors = <<>> THEN acc
    ELSE SearchVendors(Tail(vendors), table_id, tbls, gateway,
             SearchAddresses(get_vendor_emails(Head(vendors)), Head(vendors),
                             table_id, tbls, gateway, acc))

\* The store can fail inside the pipeline: "lookup" when _get_vendor_emails
\* reads db.learned_senders, "insert" when add_rows_bulk writes the table.
Faults == {"none", "lookup", "insert"}
StoreError == "store unavailable"

\* It can also fail when run_automation, on its success path, updates the
\* Automation after the run record: "bookkeep".
RunFaults == Faults \cup {"bookkeep"}

\* a pipeline without the try/except around search_emails: a search that
\* raises fails the run
execute_actions_search_raises(automation_id, automation, tbls, gateway, fault, first_row_id) ==
    LET table_id == automation.table_id
        found == SearchVendors(automation.vendors, table_id, tbls, gateway,
                               [emails_processed |-> 0, all_invoices |-> <<>>])
        inserts == table_id # NoId /\ found.all_invoices # <<>>
    IN  IF \/ fault = "lookup" /\ automation.vendors # <<>>
           \/ fault = "insert" /\ inserts
           \/ \E ad \in AddressesOf(automation.vendors) : gateway[ad] = SearchFails
        THEN [raised |-> TRUE, error |-> StoreError, tables |-> tbls,
              emails_processed |-> 0, invoices_found |-> 0, rows_added |-> 0]
        ELSE [raised |-> FALSE, error |-> None,
              tables |-> IF inserts
                         THEN add_rows_bulk(tbls, table_id, found.all_invoices,
                                            first_row_id, automation_id)
                         ELSE tbls,
              emails_processed |-> found.emails_processed,
              invoices_found |-> Len(found.all_invoices),
              rows_added |-> IF inserts THEN Len(found.all_invoices) ELSE 0]

\* _execute_actions: what it returns, or the error that escapes it, and the
\* tables it leaves
execute_actions(automation_id, automation, tbls, gateway, fault, first_row_id) ==
    LET table_id == automation.table_id
        found == SearchVendors(automation.vendors, table_id, tbls, gateway,
                               [emails_processed |-> 0, all_invoices |-> <<>>])
        inserts == table_id # NoId /\ found.all_invoices # <<>>
    IN  IF fault = "lookup" /\ automation.vendors # <<>>
        THEN [raised |-> TRUE, error |-> StoreError, tables |-> tbls,
              emails_processed |-> 0, invoices_found |-> 0, rows_added |-> 0]
        ELSE IF fault = "insert" /\ inserts
        THEN [raised |-> TRUE, error |-> StoreError, tables |-> tbls,
              emails_processed |-> 0, invoices_found |-> 0, rows_added |-> 0]
        ELSE [raised |-> FALSE, error |-> None,
              tables |-> IF inserts
                         THEN add_rows_bulk(tbls, table_id, found.all_invoices,
                                            first_row_id, automation_id)
                         ELSE tbls,
              emails_processed |-> found.emails_processed,
              invoices_found |-> Len(found.all_invoices),
              rows_added |-> IF inserts THEN Len(found.all_invoices) ELSE 0]

\* datetime.utcnow() of the run that inserts the next run record
utcnow(runs) == Len(runs) + 1

\* the run record inserted at the start of run_automation
RunningRun(automation_id, now) ==
    [automation_id |-> automation_id, started_at |-> now, completed_at |-> NoTime,
     status |-> "running", emails_processed |-> 0, rows_added |-> 0,
     error |-> None]

\* a completion whose failure path leaves the run record as inserted
CompletedRun_failure_left_running(run, now, outcome) ==
    IF outcome.raised
    THEN run
    ELSE [run EXCEPT !.completed_at = now, !.status = "success",
                     !.emails_processed = outcome.emails_processed,
                     !.rows_added = outcome.rows_added]

\* the $set of the success path and of the failure path on the run record
CompletedRun(run, now, outcome) ==
    IF outcome.raised
    THEN [run EXCEPT !.completed_at = now, !.status = "error",
                     !.error = outcome.error]
    ELSE [run EXCEPT !.completed_at = now, !.status = "success",
                     !.emails_processed = outcome.emails_processed,
                     !.rows_added = outcome.rows_added]

\* a bookkeeping that forgets to count the successful run
BookkeptAutomation_no_count(automation, now, outcome) ==
    IF outcome.raised
    THEN [automation EXCEPT !.last_run = now, !.last_error = outcome.error]
    ELSE [automation EXCEPT !.last_run = now, !.last_error = None]

\* a bookkeeping that moves a failed automation to status error
BookkeptAutomation_error_status(automation, now, outcome) ==
    IF outcome.raised
    THEN [automation EXCEPT !.last_run = now, !.last_error = outcome.error,
                            !.status = "error"]
    ELSE [automation EXCEPT !.last_run = now, !.last_error = None,
                            !.run_count = @ + 1]

\* a bookkeeping that counts the failed runs too
BookkeptAutomation_counts_failures(automation, now, outcome) ==
    IF outcome.raised
    THEN [automation EXCEPT !.last_run = now, !.last_error = outcome.error,
                            !.run_count = @ + 1]
    ELSE [automation EXCEPT !.last_run = now, !.last_error = None,
                            !.run_count = @ + 1]

\* the update of the Automation on the success path and on the failure path
BookkeptAutomation(automation, now, outcome) ==
    IF outcome.raised
    THEN [automation EXCEPT !.last_run = now, !.last_error = outcome.error]
    ELSE [automation EXCEPT !.last_run = now, !.last_error = None,
                            !.run_count = @ + 1]

\* a creation that files every automation under the first table
NewAutomation_shared_table(req, table_id) ==
    [vendors |-> req.vendors, trigger |-> ParseTrigger(req), table_id |-> 1,
     status |-> "active", last_run |-> NoTime, next_run |-> NoFireTime,
     run_count |-> 0, last_error |-> None]

\* the automation document inserted by create_automation
NewAutomation(req, table_id) ==
    [vendors |-> req.vendors, trigger |-> ParseTrigger(req), table_id |-> table_id,
     status |-> "active", last_run |-> NoTime, next_run |-> NoFireTime,
     run_count |-> 0, last_error |-> None]


\* The coroutines of the event loop that can be inside an engine call at the
\* same time; a coroutine that is in no call is Idle.  The code between two
\* awaits on the store runs without interruption.
Procs == {"p1", "p2"}
Idle == [pc |-> "idle"]

\* ---------------------------------------------------------------- Init
Init ==
    /\ automations = <<>>
    /\ automation_runs = <<>>
    /\ tables = <<>>
    /\ scheduler = "none"
    /\ started = FALSE
    /\ engine = FALSE
    /\ jobs = NoJobs
    /\ nextAutomationId = 1
    /\ nextTableId = 1
    /\ nextRowId = 1
    /\ result = Ret("init", NoId, TRUE, None, 0, 0)
    /\ inflight = [p \in Procs |-> Idle]
    /\ parsed = NoParsed

\* ------------------------------------------------- Scheduler operations
\* set_engine
SetEngine ==
    /\ ~engine
    /\ engine' = TRUE
    /\ result' = Ret("set_engine", NoId, TRUE, None, 0, 0)
    /\ UNCHANGED <<inflight, parsed,
                   automations, automation_runs, tables, scheduler, started, jobs,
                   nextAutomationId, nextTableId, nextRowId>>

\* start: a new scheduler object, then _load_automations; the early return
\* of a scheduler that is already started is reported as success = FALSE
Start ==
    /\ result' = Ret("start", NoId, ~started, None, 0, 0)
    /\ IF started
       THEN UNCHANGED <<scheduler, started, jobs, automations>>
       ELSE LET loaded == LoadAutomations(ActiveIds(automations), "running",
                                          NoJobs, automations)
            IN  /\ scheduler' = "running"
                /\ started' = TRUE
                /\ jobs' = loaded.jobs
                /\ automations' = loaded.automations
    /\ UNCHANGED <<inflight, parsed,
                   automation_runs, tables, engine, nextAutomationId,
                   nextTableId, nextRowId>>

\* shutdown() of the executor of an AsyncIOScheduler cancels the tasks of the
\* jobs that are running: the coroutines of the timer callbacks end at the
\* await they are suspended in; the coroutines of the requests go on
CancelRunningJobs(calls) ==
    [p \in Procs |->
        IF calls[p] = Idle THEN Idle
        ELSE IF calls[p].op = "fire" THEN Idle
        ELSE calls[p]]

\* stop: shutdown() empties the job store and cancels the running jobs; on a
\* scheduler that is already shut down it raises SchedulerNotRunningError
Stop ==
    /\ scheduler # "none"
    /\ IF scheduler = "running"
       THEN /\ scheduler' = "stopped"
            /\ started' = FALSE
            /\ jobs' = NoJobs
            /\ inflight' = CancelRunningJobs(inflight)
            /\ result' = Ret("stop", NoId, TRUE, None, 0, 0)
       ELSE /\ UNCHANGED <<scheduler, started, jobs, inflight>>
            /\ result' = Ret("stop", NoId, FALSE, "SchedulerNotRunningError", 0, 0)
    /\ UNCHANGED <<parsed,
                   automations, automation_runs, tables, engine,
                   nextAutomationId, nextTableId, nextRowId>>

\* ---------------------------------------------------- Engine operations
\* create_automation
CreateAutomation(req) ==
    /\ nextAutomationId <= MaxAutomations
    /\ nextTableId <= MaxTables
    /\ LET automation_id == nextAutomationId
           table_id == nextTableId
           automation_doc == NewAutomation(req, table_id)
           inserted == (automation_id :> automation_doc) @@ automations
           s == schedule_automation(scheduler, jobs, inserted, automation_id,
                                    automation_doc)
       IN  /\ tables' = create_table(tables, table_id, NoId)
           /\ automations' = s.automations
           /\ jobs' = s.jobs
           /\ result' = Ret("create", automation_id, TRUE, None, 0, 0)
    /\ nextAutomationId' = nextAutomationId + 1
    /\ nextTableId' = nextTableId + 1
    /\ UNCHANGED <<inflight, parsed,
                   automation_runs, scheduler, started, engine, nextRowId>>

\* a not-found path that records the run before it looks the automation up
RunNotFound_with_record(op, automation_id) ==
    /\ automation_id \notin DOMAIN automations
    /\ Len(automation_runs) < MaxRuns
    /\ automation_runs' =
           Append(automation_runs,
                  RunningRun(automation_id, utcnow(automation_runs)))
    /\ result' = Ret(op, automation_id, FALSE, "Automation not found", 0, 0)
    /\ UNCHANGED <<inflight, parsed,
                   automations, tables, scheduler, started,
                   engine, jobs, nextAutomationId, nextTableId, nextRowId>>

\* run_automation when find_one returns no document
RunNotFound(op, automation_id) ==
    /\ automation_id \notin DOMAIN automations
    /\ result' = Ret(op, automation_id, FALSE, "Automation not found", 0, 0)
    /\ UNCHANGED <<inflight, parsed,
                   automations, automation_runs, tables, scheduler, started,
                   engine, jobs, nextAutomationId, nextTableId, nextRowId>>

\* run_automation of an existing automation: the run record, the pipeline,
\* then the bookkeeping of its success path or of its failure path
RunFound(op, automation_id, gateway, fault) ==
    /\ automation_id \in DOMAIN automations
    /\ Len(automation_runs) < MaxRuns
    /\ LET now == utcnow(automation_runs)
           outcome == execute_actions(automation_id, automations[automation_id],
                                      tables, gateway, fault, nextRowId)
       IN  /\ nextRowId + outcome.rows_added <= MaxRows + 1
           /\ automation_runs' =
                  Append(automation_runs,
                         CompletedRun(RunningRun(automation_id, now), now, outcome))
           /\ automations' =
                  [automations EXCEPT ![automation_id] =
                      BookkeptAutomation(@, now, outcome)]
           /\ tables' = outcome.tables
           /\ nextRowId' = nextRowId + outcome.rows_added
           /\ result' =
                  IF outcome.raised
                  THEN Ret(op, automation_id, FALSE, outcome.error, 0, 0)
                  ELSE Ret(op, automation_id, TRUE, None,
                           outcome.emails_processed, outcome.rows_added)
    /\ UNCHANGED <<inflight, parsed,
                   scheduler, started, engine, jobs, nextAutomationId, nextTableId>>

run_automation(op, automation_id) ==
    \/ RunNotFound(op, automation_id)
    \/ /\ automation_id \in DOMAIN automations
       /\ \E gateway \in [AddressesOf(automations[automation_id].vendors)
                              -> SearchResults],
             fault \in Faults :
             RunFound(op, automation_id, gateway, fault)

EngineNotSet(op, automation_id) ==
    /\ ~engine
    /\ result' = Ret(op, automation_id, FALSE, "Engine not set", 0, 0)
    /\ UNCHANGED <<inflight, parsed,
                   automations, automation_runs, tables, scheduler, started,
                   engine, jobs, nextAutomationId, nextTableId, nextRowId>>

\* a timer callback that gives up its timer when the run fails
OnFire_drops_timer(automation_id) ==
    /\ scheduler = "running"
    /\ jobs[automation_id] > 0
    /\ \/ EngineNotSet("fire", automation_id)
       \/ /\ engine
          /\ run_automation("fire", automation_id)
          /\ result'.success
       \/ /\ engine
          /\ automation_id \in DOMAIN automations
          /\ Len(automation_runs) < MaxRuns
          /\ LET now == utcnow(automation_runs)
                 outcome == [raised |-> TRUE, error |-> StoreError]
             IN  /\ automation_runs' =
                        Append(automation_runs,
                               CompletedRun(RunningRun(automation_id, now), now,
                                            outcome))
                 /\ automations' =
                        [automations EXCEPT ![automation_id] =
                            BookkeptAutomation(@, now, outcome)]
          /\ jobs' = [jobs EXCEPT ![automation_id] = 0]
          /\ result' = Ret("fire", automation_id, FALSE, StoreError, 0, 0)
          /\ UNCHANGED <<inflight, parsed, tables, scheduler, started, engine, nextAutomationId,
                         nextTableId, nextRowId>>

\* _run_automation, called by the timer of automation_id
OnFire(automation_id) ==
    /\ scheduler = "running"
    /\ jobs[automation_id] > 0
    /\ \/ EngineNotSet("fire", automation_id)
       \/ engine /\ run_automation("fire", automation_id)

\* a run_now that runs the pipeline and leaves the Automation as it was
RunNow_without_bookkeeping(automation_id) ==
    \/ EngineNotSet("run_now", automation_id)
    \/ engine /\ RunNotFound("run_now", automation_id)
    \/ /\ engine
       /\ automation_id \in DOMAIN automations
       /\ Len(automation_runs) < MaxRuns
       /\ \E gateway \in [AddressesOf(automations[automation_id].vendors)
                              -> SearchResults], fault \in Faults :
             LET now == utcnow(automation_runs)
                 outcome == execute_actions(automation_id, automations[automation_id],
                                            tables, gateway, fault, nextRowId)
             IN  /\ nextRowId + outcome.rows_added <= MaxRows + 1
                 /\ automation_runs' =
                        Append(automation_runs,
                               CompletedRun(RunningRun(automation_id, now), now,
                                            outcome))
                 /\ tables' = outcome.tables
                 /\ nextRowId' = nextRowId + outcome.rows_added
                 /\ result' = Ret("run_now", automation_id, ~outcome.raised,
                                  outcome.error, outcome.emails_processed,
                                  outcome.rows_added)
       /\ UNCHANGED <<inflight, parsed, automations, scheduler, started, engine,
                      jobs, nextAutomationId, nextTableId>>

\* run_now
RunNow(automation_id) ==
    \/ EngineNotSet("run_now", automation_id)
    \/ engine /\ run_automation("run_now", automation_id)

\* a pause that reports success whatever update_one matched
PauseAutomation_reports_success(automation_id) ==
    /\ jobs' = unschedule_automation(scheduler, jobs, automation_id)
    /\ automations' =
           IF automation_id \in DOMAIN automations
           THEN [automations EXCEPT ![automation_id].status = "paused"]
           ELSE automations
    /\ result' = Ret("pause", automation_id, TRUE, None, 0, 0)
    /\ UNCHANGED <<inflight, parsed,
                   automation_runs, tables, scheduler, started, engine,
                   nextAutomationId, nextTableId, nextRowId>>

\* pause_automation
PauseAutomation(automation_id) ==
    /\ jobs' = unschedule_automation(scheduler, jobs, automation_id)
    /\ automations' =
           IF automation_id \in DOMAIN automations
           THEN [automations EXCEPT ![automation_id].status = "paused"]
           ELSE automations
    /\ result' = Ret("pause", automation_id, automation_id \in DOMAIN automations,
                     None, 0, 0)
    /\ UNCHANGED <<inflight, parsed,
                   automation_runs, tables, scheduler, started, engine,
                   nextAutomationId, nextTableId, nextRowId>>

\* resume_automation
ResumeAutomation(automation_id) ==
    /\ IF automation_id \notin DOMAIN automations
       THEN /\ result' = Ret("resume", automation_id, FALSE, None, 0, 0)
            /\ UNCHANGED <<automations, jobs>>
       ELSE LET s == schedule_automation(scheduler, jobs, automations,
                                         automation_id, automations[automation_id])
            IN  /\ jobs' = s.jobs
                /\ automations' =
                       [s.automations EXCEPT ![automation_id].status = "active"]
                /\ result' = Ret("resume", automation_id, TRUE, None, 0, 0)
    /\ UNCHANGED <<inflight, parsed,
                   automation_runs, tables, scheduler, started, engine,
                   nextAutomationId, nextTableId, nextRowId>>

\* a delete that always takes the table with it
DeleteAutomation_cascades(automation_id, delete_table_flag) ==
    /\ IF automation_id \notin DOMAIN automations
       THEN /\ result' = Ret("delete", automation_id, FALSE, None, 0, 0)
            /\ UNCHANGED <<automations, jobs, tables>>
       ELSE /\ jobs' = unschedule_automation(scheduler, jobs, automation_id)
            /\ tables' = delete_table(tables, automations[automation_id].table_id)
            /\ automations' =
                   [a \in DOMAIN automations \ {automation_id} |-> automations[a]]
            /\ result' = Ret("delete", automation_id, TRUE, None, 0, 0)
    /\ UNCHANGED <<inflight, parsed,
                   automation_runs, scheduler, started, engine, nextAutomationId,
                   nextTableId, nextRowId>>

\* delete_automation
DeleteAutomation(automation_id, delete_table_flag) ==
    /\ IF automation_id \notin DOMAIN automations
       THEN /\ result' = Ret("delete", automation_id, FALSE, None, 0, 0)
            /\ UNCHANGED <<automations, jobs, tables>>
       ELSE /\ jobs' = unschedule_automation(scheduler, jobs, automation_id)
            /\ tables' =
                   IF delete_table_flag /\ automations[automation_id].table_id # NoId
                   THEN delete_table(tables, automations[automation_id].table_id)
                   ELSE tables
            /\ automations' =
                   [a \in DOMAIN automations \ {automation_id} |-> automations[a]]
            /\ result' = Ret("delete", automation_id, TRUE, None, 0, 0)
    /\ UNCHANGED <<inflight, parsed,
                   automation_runs, scheduler, started, engine, nextAutomationId,
                   nextTableId, nextRowId>>

\* ------------------------------------------------ Table Store operations
\* the payloads handed to add_row, add_rows_bulk and update_row
RowData ==
    [fournisseur : {"Distram"}, montant : {Num(1), Num(2), NotANumber, Absent},
     email_id : {None}, payee : {FALSE}]

\* the payloads handed to update_row
UpdateData ==
    [fournisseur : {"Distram"}, montant : {Num(2), Absent}, email_id : {None},
     payee : {FALSE}]

RowIds == 1..MaxRows
UserTableIds == 1..MaxUserTables

Batches == UNION {[1..n -> RowData] : n \in 0..MaxBatch}

\* create_table called by the user
CreateTable ==
    /\ nextTableId <= MaxUserTables
    /\ tables' = create_table(tables, nextTableId, NoId)
    /\ nextTableId' = nextTableId + 1
    /\ result' = Ret("create_table", nextTableId, TRUE, None, 0, 0)
    /\ UNCHANGED <<inflight, parsed,
                   automations, automation_runs, scheduler, started, engine, jobs,
                   nextAutomationId, nextRowId>>

\* add_row
AddRow(table_id, data) ==
    /\ nextRowId <= MaxRows
    /\ tables' = add_row(tables, table_id, nextRowId, data, None, NoId)
    /\ nextRowId' = nextRowId + 1
    /\ result' = Ret("add_row", table_id, TRUE, None, 0, 0)
    /\ UNCHANGED <<inflight, parsed,
                   automations, automation_runs, scheduler, started, engine, jobs,
                   nextAutomationId, nextTableId>>

\* add_rows_bulk
AddRowsBulk(table_id, rows_data) ==
    /\ nextRowId + Len(rows_data) <= MaxRows + 1
    /\ tables' = add_rows_bulk(tables, table_id, rows_data, nextRowId, NoId)
    /\ nextRowId' = nextRowId + Len(rows_data)
    /\ result' = Ret("add_rows_bulk", table_id, TRUE, None, 0, Len(rows_data))
    /\ UNCHANGED <<inflight, parsed,
                   automations, automation_runs, scheduler, started, engine, jobs,
                   nextAutomationId, nextTableId>>

\* update_row
UpdateRow(table_id, row_id, data) ==
    /\ tables' = update_row(tables, table_id, row_id, data)
    /\ result' = Ret("update_row", table_id, tables' # tables, None, 0, 0)
    /\ UNCHANGED <<inflight, parsed,
                   automations, automation_runs, scheduler, started, engine, jobs,
                   nextAutomationId, nextTableId, nextRowId>>

\* toggle_paid
TogglePaid(table_id, row_id) ==
    /\ tables' = toggle_paid(tables, table_id, row_id)
    /\ result' = Ret("toggle_paid", table_id, HasRow(tables, table_id, row_id),
                     None, 0, 0)
    /\ UNCHANGED <<inflight, parsed,
                   automations, automation_runs, scheduler, started, engine, jobs,
                   nextAutomationId, nextTableId, nextRowId>>

\* delete_row
DeleteRow(table_id, row_id) ==
    /\ tables' = delete_row(tables, table_id, row_id)
    /\ result' = Ret("delete_row", table_id, table_id \in DOMAIN tables, None, 0, 0)
    /\ UNCHANGED <<inflight, parsed,
                   automations, automation_runs, scheduler, started, engine, jobs,
                   nextAutomationId, nextTableId, nextRowId>>

\* delete_table
DeleteTable(table_id) ==
    /\ tables' = delete_table(tables, table_id)
    /\ result' = Ret("delete_table", table_id, table_id \in DOMAIN tables, None, 0, 0)
    /\ UNCHANGED <<inflight, parsed,
                   automations, automation_runs, scheduler, started, engine, jobs,
                   nextAutomationId, nextTableId, nextRowId>>

\* ------------------------------------------- Engine calls, await by await
\* An engine call is suspended at each await on the store; the record of a
\* suspended run_automation holds its local variables: the document read by
\* find_one, the run record it inserted, the searches still to go through,
\* the counters and all_invoices, and what _execute_actions returned or
\* raised.  Times are the ordinal of the run record, as in utcnow.
NoOutcome ==
    [raised |-> FALSE, error |-> None, emails_processed |-> 0,
     invoices_found |-> 0, rows_added |-> 0]

RaisedOutcome == [NoOutcome EXCEPT !.raised = TRUE, !.error = StoreError]

\* the messages that the searches of one vendor return, in order, each with
\* the vendor it was searched for
RECURSIVE WorkOfAddresses(_, _, _)
WorkOfAddresses(addresses, vendor, gateway) ==
    IF addresses = <<>> THEN <<>>
    ELSE LET emails == gateway[Head(addresses)]
         IN  (IF emails = SearchFails THEN <<>>
              ELSE [i \in 1..Len(emails) |-> <<emails[i], vendor>>])
             \o WorkOfAddresses(Tail(addresses), vendor, gateway)

\* the messages that the loops of _execute_actions go through
RECURSIVE WorkOfVendors(_, _)
WorkOfVendors(vendors, gateway) ==
    IF vendors = <<>> THEN <<>>
    ELSE WorkOfAddresses(get_vendor_emails(Head(vendors)), Head(vendors), gateway)
         \o WorkOfVendors(Tail(vendors), gateway)

\* after the loops: "if table_id and all_invoices" awaits add_rows_bulk,
\* otherwise _execute_actions returns with rows_added = 0
AfterLoops(r) ==
    IF r.work # <<>> THEN r
    ELSE IF r.automation.table_id # NoId /\ r.acc.all_invoices # <<>>
    THEN [r EXCEPT !.pc = "insert"]
    ELSE [r EXCEPT !.pc = "complete",
                   !.outcome = [NoOutcome EXCEPT
                                   !.emails_processed = r.acc.emails_processed,
                                   !.invoices_found = Len(r.acc.all_invoices)]]

InFlightRuns(pcs) == {q \in Procs : inflight[q].pc \in pcs}

\* the coroutines that are inside a call of one of ops for automation_id
InFlightOn(automation_id, ops) ==
    {q \in Procs : IF inflight[q] = Idle THEN FALSE
                   ELSE inflight[q].id = automation_id /\ inflight[q].op \in ops}

\* run_automation up to its first await: find_one; op "fire" is the timer
\* callback, which the scheduler does not start while a previous instance of
\* the same job is running (max_instances = 1), op "run_now" is run_now
RunFind(p, op, automation_id) ==
    /\ inflight[p] = Idle
    /\ engine
    /\ Len(automation_runs) + Cardinality(InFlightRuns({"record"})) < MaxRuns
    /\ op = "fire" =>
           /\ scheduler = "running"
           /\ jobs[automation_id] > 0
           /\ InFlightOn(automation_id, {"fire"}) = {}
    /\ IF automation_id \notin DOMAIN automations
       THEN /\ result' = Ret(op, automation_id, FALSE, "Automation not found", 0, 0)
            /\ UNCHANGED inflight
       ELSE /\ inflight' =
                   [inflight EXCEPT ![p] =
                       [pc |-> "record", op |-> op, id |-> automation_id,
                        automation |-> automations[automation_id],
                        run |-> 0, now |-> NoTime,
                        gateway |-> <<>>, fault |-> "none", work |-> <<>>,
                        acc |-> [emails_processed |-> 0, all_invoices |-> <<>>],
                        outcome |-> NoOutcome]]
            /\ UNCHANGED result
    /\ UNCHANGED <<parsed, automations, automation_runs, tables, scheduler,
                   started, engine, jobs, nextAutomationId, nextTableId,
                   nextRowId>>

\* insert_one of the run record, then _execute_actions up to the first
\* check_duplicate: the lookups of the vendors' addresses and the searches;
\* gateway is what the searches of this run return, fault what the store does
RunRecord(p, gateway, fault) ==
    /\ inflight[p].pc = "record"
    /\ gateway \in [AddressesOf(inflight[p].automation.vendors) -> SearchResults]
    /\ LET r == inflight[p]
           now == utcnow(automation_runs)
           begun == [r EXCEPT !.run = Len(automation_runs) + 1, !.now = now,
                              !.gateway = gateway, !.fault = fault]
       IN  /\ automation_runs' = Append(automation_runs, RunningRun(r.id, now))
           /\ inflight' =
                  [inflight EXCEPT ![p] =
                      IF fault = "lookup" /\ r.automation.vendors # <<>>
                      THEN [begun EXCEPT !.pc = "complete",
                                         !.outcome = RaisedOutcome]
                      ELSE AfterLoops(
                               [begun EXCEPT
                                   !.pc = "scan",
                                   !.work = WorkOfVendors(r.automation.vendors,
                                                          gateway)])]
    /\ UNCHANGED <<parsed, automations, tables, scheduler, started, engine,
                   jobs, nextAutomationId, nextTableId, nextRowId, result>>

RunRecordAny(p, fault) ==
    /\ inflight[p].pc = "record"
    /\ \E gateway \in [AddressesOf(inflight[p].automation.vendors) -> SearchResults] :
          RunRecord(p, gateway, fault)

\* one turn of "for email in emails": check_duplicate reads the table as it
\* is now, then the attachments are scanned
RunScan(p) ==
    /\ inflight[p].pc = "scan"
    /\ LET r == inflight[p]
           email == Head(r.work)
       IN  inflight' =
               [inflight EXCEPT ![p] =
                   AfterLoops(
                       [r EXCEPT
                           !.work = Tail(r.work),
                           !.acc = ProcessEmails(<<email[1]>>, email[2],
                                                 r.automation.table_id, tables,
                                                 r.acc)])]
    /\ UNCHANGED <<parsed, automations, automation_runs, tables, scheduler,
                   started, engine, jobs, nextAutomationId, nextTableId,
                   nextRowId, result>>

\* add_rows_bulk of all_invoices, one update of the table
RunInsert(p) ==
    /\ inflight[p].pc = "insert"
    /\ LET r == inflight[p]
           rows_added == Len(r.acc.all_invoices)
       IN  IF r.fault = "insert"
           THEN /\ inflight' =
                       [inflight EXCEPT ![p] =
                           [r EXCEPT !.pc = "complete",
                                     !.outcome = RaisedOutcome]]
                /\ UNCHANGED <<tables, nextRowId>>
           ELSE /\ nextRowId + rows_added <= MaxRows + 1
                /\ tables' = add_rows_bulk(tables, r.automation.table_id,
                                           r.acc.all_invoices, nextRowId, r.id)
                /\ nextRowId' = nextRowId + rows_added
                /\ inflight' =
                       [inflight EXCEPT ![p] =
                           [r EXCEPT
                               !.pc = "complete",
                               !.outcome =
                                   [NoOutcome EXCEPT
                                       !.emails_processed = r.acc.emails_processed,
                                       !.invoices_found = rows_added,
                                       !.rows_added = rows_added]]]
    /\ UNCHANGED <<parsed, automations, automation_runs, scheduler, started,
                   engine, jobs, nextAutomationId, nextTableId, result>>

\* update_one of the run record, on the success path or in the except block
RunComplete(p) ==
    /\ inflight[p].pc = "complete"
    /\ LET r == inflight[p]
       IN  /\ automation_runs' =
                  [automation_runs EXCEPT ![r.run] =
                      CompletedRun(@, r.now, r.outcome)]
           /\ inflight' = [inflight EXCEPT ![p] = [r EXCEPT !.pc = "bookkeep"]]
    /\ UNCHANGED <<parsed, automations, tables, scheduler, started, engine,
                   jobs, nextAutomationId, nextTableId, nextRowId, result>>

\* update_one of the automation, then the return of run_automation; on the
\* success path the update is inside the try block: when it raises (fault
\* "bookkeep") the except block takes over and updates the run record again
RunBookkeep(p) ==
    /\ inflight[p].pc = "bookkeep"
    /\ LET r == inflight[p]
       IN  IF r.fault = "bookkeep" /\ ~r.outcome.raised
           THEN /\ inflight' =
                       [inflight EXCEPT ![p] =
                           [r EXCEPT !.pc = "complete", !.fault = "none",
                                     !.outcome = RaisedOutcome]]
                /\ UNCHANGED <<automations, result>>
           ELSE /\ automations' =
                       IF r.id \in DOMAIN automations
                       THEN [automations EXCEPT ![r.id] =
                                BookkeptAutomation(@, r.now, r.outcome)]
                       ELSE automations
                /\ result' =
                       IF r.outcome.raised
                       THEN Ret(r.op, r.id, FALSE, r.outcome.error, 0, 0)
                       ELSE Ret(r.op, r.id, TRUE, None, r.outcome.emails_processed,
                                r.outcome.rows_added)
                /\ inflight' = [inflight EXCEPT ![p] = Idle]
    /\ UNCHANGED <<parsed, automation_runs, tables, scheduler, started, engine,
                   jobs, nextAutomationId, nextTableId, nextRowId>>

\* pause_automation up to its await on the store: unschedule_automation has
\* no await of its own and runs at once
PauseUnschedule(p, automation_id) ==
    /\ inflight[p] = Idle
    /\ jobs' = unschedule_automation(scheduler, jobs, automation_id)
    /\ inflight' = [inflight EXCEPT ![p] =
                       [pc |-> "pause_update", op |-> "pause", id |-> automation_id]]
    /\ UNCHANGED <<parsed, automations, automation_runs, tables, scheduler,
                   started, engine, nextAutomationId, nextTableId, nextRowId,
                   result>>

\* pause_automation: update_one sets status paused; modified_count > 0
PauseUpdate(p) ==
    /\ inflight[p].pc = "pause_update"
    /\ LET id == inflight[p].id
       IN  /\ automations' =
                  IF id \in DOMAIN automations
                  THEN [automations EXCEPT ![id].status = "paused"]
                  ELSE automations
           /\ result' = Ret("pause", id, id \in DOMAIN automations, None, 0, 0)
    /\ inflight' = [inflight EXCEPT ![p] = Idle]
    /\ UNCHANGED <<parsed, automation_runs, tables, scheduler, started, engine,
                   jobs, nextAutomationId, nextTableId, nextRowId>>

\* resume_automation: find_one, "if not automation: return False"
ResumeFind(p, automation_id) ==
    /\ inflight[p] = Idle
    /\ IF automation_id \notin DOMAIN automations
       THEN /\ result' = Ret("resume", automation_id, FALSE, None, 0, 0)
            /\ UNCHANGED inflight
       ELSE /\ inflight' =
                   [inflight EXCEPT ![p] =
                       [pc |-> "resume_schedule", op |-> "resume",
                        id |-> automation_id,
                        automation |-> automations[automation_id]]]
            /\ UNCHANGED result
    /\ UNCHANGED <<parsed, automations, automation_runs, tables, scheduler,
                   started, engine, jobs, nextAutomationId, nextTableId,
                   nextRowId>>

\* schedule_automation of the document that find_one returned, up to its
\* await on the store: the trigger, remove_job and add_job
ResumeSchedule(p) ==
    /\ inflight[p].pc = "resume_schedule"
    /\ LET r == inflight[p]
           s == schedule_automation(scheduler, jobs, automations, r.id,
                                    r.automation)
       IN  /\ jobs' = s.jobs
           /\ inflight' =
                  [inflight EXCEPT ![p] =
                      [r EXCEPT !.pc = IF s.ok THEN "resume_next_run"
                                       ELSE "resume_update"]]
    /\ UNCHANGED <<parsed, automations, automation_runs, tables, scheduler,
                   started, engine, nextAutomationId, nextTableId, nextRowId,
                   result>>

\* schedule_automation: update_one sets next_run
ResumeNextRun(p) ==
    /\ inflight[p].pc = "resume_next_run"
    /\ LET r == inflight[p]
           s == schedule_automation(scheduler, jobs, automations, r.id,
                                    r.automation)
       IN  /\ automations' = s.automations
           /\ inflight' = [inflight EXCEPT ![p] = [r EXCEPT !.pc = "resume_update"]]
    /\ UNCHANGED <<parsed, automation_runs, tables, scheduler, started, engine,
                   jobs, nextAutomationId, nextTableId, nextRowId, result>>

\* resume_automation: update_one sets status active; modified_count > 0
ResumeUpdate(p) ==
    /\ inflight[p].pc = "resume_update"
    /\ LET id == inflight[p].id
       IN  /\ automations' =
                  IF id \in DOMAIN automations
                  THEN [automations EXCEPT ![id].status = "active"]
                  ELSE automations
           /\ result' = Ret("resume", id, id \in DOMAIN automations, None, 0, 0)
    /\ inflight' = [inflight EXCEPT ![p] = Idle]
    /\ UNCHANGED <<parsed, automation_runs, tables, scheduler, started, engine,
                   jobs, nextAutomationId, nextTableId, nextRowId>>

\* delete_automation: find_one, "if not automation: return False"
DeleteFind(p, automation_id, delete_table_flag) ==
    /\ inflight[p] = Idle
    /\ IF automation_id \notin DOMAIN automations
       THEN /\ result' = Ret("delete", automation_id, FALSE, None, 0, 0)
            /\ UNCHANGED inflight
       ELSE /\ inflight' =
                   [inflight EXCEPT ![p] =
                       [pc |-> "delete_unschedule", op |-> "delete",
                        id |-> automation_id,
                        automation |-> automations[automation_id],
                        delete_table |-> delete_table_flag]]
            /\ UNCHANGED result
    /\ UNCHANGED <<parsed, automations, automation_runs, tables, scheduler,
                   started, engine, jobs, nextAutomationId, nextTableId,
                   nextRowId>>

\* delete_automation: unschedule_automation, up to the next await on the store
DeleteUnschedule(p) ==
    /\ inflight[p].pc = "delete_unschedule"
    /\ LET r == inflight[p]
       IN  /\ jobs' = unschedule_automation(scheduler, jobs, r.id)
           /\ inflight' =
                  [inflight EXCEPT ![p] =
                      [r EXCEPT !.pc =
                          IF r.delete_table /\ r.automation.table_id # NoId
                          THEN "delete_table" ELSE "delete_doc"]]
    /\ UNCHANGED <<parsed, automations, automation_runs, tables, scheduler,
                   started, engine, nextAutomationId, nextTableId, nextRowId,
                   result>>

\* delete_automation: TableManager.delete_table of the automation's table
DeleteItsTable(p) ==
    /\ inflight[p].pc = "delete_table"
    /\ LET r == inflight[p]
       IN  /\ tables' = delete_table(tables, r.automation.table_id)
           /\ inflight' = [inflight EXCEPT ![p] = [r EXCEPT !.pc = "delete_doc"]]
    /\ UNCHANGED <<parsed, automations, automation_runs, scheduler, started,
                   engine, jobs, nextAutomationId, nextTableId, nextRowId,
                   result>>

\* delete_automation: delete_one; deleted_count > 0
DeleteDocument(p) ==
    /\ inflight[p].pc = "delete_doc"
    /\ LET id == inflight[p].id
       IN  /\ automations' =
                  [a \in DOMAIN automations \ {id} |-> automations[a]]
           /\ result' = Ret("delete", id, id \in DOMAIN automations, None, 0, 0)
    /\ inflight' = [inflight EXCEPT ![p] = Idle]
    /\ UNCHANGED <<parsed, automation_runs, tables, scheduler, started, engine,
                   jobs, nextAutomationId, nextTableId, nextRowId>>

\* ------------------------------------------- start, await by await
\* the documents that the cursor of _load_automations yields, in the order
\* of their ids
RECURSIVE CursorOf(_, _)
CursorOf(ids, autos) ==
    IF ids = {} THEN <<>>
    ELSE LET id == CHOOSE i \in ids : \A j \in ids : i <= j
         IN  <<<<id, autos[id]>>>> \o CursorOf(ids \ {id}, autos)

\* the loop of _load_automations after one automation: the next one, or the
\* return of start
AfterLoad(r) ==
    IF r.todo = <<>> THEN Idle ELSE [r EXCEPT !.pc = "load_schedule"]

\* a start that does not look at _started
StartBegin_restarts(p) ==
    /\ inflight[p] = Idle
    /\ scheduler' = "running"
    /\ started' = TRUE
    /\ jobs' = NoJobs
    /\ inflight' = [inflight EXCEPT ![p] =
                       [pc |-> "load_find", op |-> "start", id |-> NoId,
                        todo |-> <<>>]]
    /\ UNCHANGED <<parsed, automations, automation_runs, tables, engine,
                   nextAutomationId, nextTableId, nextRowId, result>>

\* start up to its first await: the early return of a scheduler that is
\* started (reported as success = FALSE), else a new scheduler object,
\* started, and _started set
StartBegin(p) ==
    /\ inflight[p] = Idle
    /\ IF started
       THEN /\ result' = Ret("start", NoId, FALSE, None, 0, 0)
            /\ UNCHANGED <<scheduler, started, jobs, inflight>>
       ELSE /\ scheduler' = "running"
            /\ started' = TRUE
            /\ jobs' = NoJobs
            /\ inflight' = [inflight EXCEPT ![p] =
                               [pc |-> "load_find", op |-> "start", id |-> NoId,
                                todo |-> <<>>]]
            /\ UNCHANGED result
    /\ UNCHANGED <<parsed, automations, automation_runs, tables, engine,
                   nextAutomationId, nextTableId, nextRowId>>

\* _load_automations: the cursor reads the documents with status active
StartFind(p) ==
    /\ inflight[p].pc = "load_find"
    /\ LET r == [inflight[p] EXCEPT
                    !.todo = CursorOf(ActiveIds(automations), automations)]
       IN  /\ inflight' = [inflight EXCEPT ![p] = AfterLoad(r)]
           /\ result' = IF r.todo = <<>> THEN Ret("start", NoId, TRUE, None, 0, 0)
                        ELSE result
    /\ UNCHANGED <<parsed, automations, automation_runs, tables, scheduler,
                   started, engine, jobs, nextAutomationId, nextTableId,
                   nextRowId>>

\* _load_automations: schedule_automation of the next document, up to its
\* await on the store
StartSchedule(p) ==
    /\ inflight[p].pc = "load_schedule"
    /\ LET r == inflight[p]
           id == Head(r.todo)[1]
           s == schedule_automation(scheduler, jobs, automations, id,
                                    Head(r.todo)[2])
           rest == [r EXCEPT !.todo = Tail(r.todo)]
       IN  /\ jobs' = s.jobs
           /\ inflight' =
                  [inflight EXCEPT ![p] =
                      IF s.ok THEN [r EXCEPT !.pc = "load_next_run"]
                      ELSE AfterLoad(rest)]
           /\ result' = IF ~s.ok /\ rest.todo = <<>>
                        THEN Ret("start", NoId, TRUE, None, 0, 0)
                        ELSE result
    /\ UNCHANGED <<parsed, automations, automation_runs, tables, scheduler,
                   started, engine, nextAutomationId, nextTableId, nextRowId>>

\* schedule_automation: update_one sets next_run; then the next document,
\* or the return of start
StartNextRun(p) ==
    /\ inflight[p].pc = "load_next_run"
    /\ LET r == inflight[p]
           id == Head(r.todo)[1]
           s == schedule_automation(scheduler, jobs, automations, id,
                                    Head(r.todo)[2])
           rest == [r EXCEPT !.todo = Tail(r.todo)]
       IN  /\ automations' = s.automations
           /\ inflight' = [inflight EXCEPT ![p] = AfterLoad(rest)]
           /\ result' = IF rest.todo = <<>>
                        THEN Ret("start", NoId, TRUE, None, 0, 0)
                        ELSE result
    /\ UNCHANGED <<parsed, automation_runs, tables, scheduler, started, engine,
                   jobs, nextAutomationId, nextTableId, nextRowId>>

\* ------------------------------------------------------ Request Parser
\* a call of parse_automation_request
Parse(text) ==
    /\ parsed = NoParsed
    /\ parsed' = [text |-> text, config |-> parse_automation_request(text)]
    /\ UNCHANGED <<inflight, automations, automation_runs, tables, scheduler,
                   started, engine, jobs, nextAutomationId, nextTableId,
                   nextRowId, result>>

\* ------------------------------------------------------ Specifications
\* the automation service: Engine and Scheduler
Next ==
    \/ SetEngine
    \/ Start
    \/ Stop
    \/ \E req \in Requests : CreateAutomation(req)
    \/ \E a \in AutomationIds : OnFire(a)
    \/ \E a \in AutomationIds : RunNow(a)
    \/ \E a \in AutomationIds : PauseAutomation(a)
    \/ \E a \in AutomationIds : ResumeAutomation(a)
    \/ \E a \in AutomationIds, f \in BOOLEAN : DeleteAutomation(a, f)

Spec == Init /\ [][Next]_vars

\* the Table Store under the operations of its API
NextTables ==
    \/ CreateTable
    \/ \E t \in UserTableIds, data \in RowData : AddRow(t, data)
    \/ \E t \in UserTableIds, rows_data \in Batches : AddRowsBulk(t, rows_data)
    \/ \E t \in UserTableIds, r \in RowIds, data \in UpdateData : UpdateRow(t, r, data)
    \/ \E t \in UserTableIds, r \in RowIds : TogglePaid(t, r)
    \/ \E t \in UserTableIds, r \in RowIds : DeleteRow(t, r)
    \/ \E t \in UserTableIds : DeleteTable(t)

SpecTables == Init /\ [][NextTables]_vars

\* the Table Store under insertions only
NextAppend ==
    \/ CreateTable
    \/ \E t \in TableIds, data \in RowData : AddRow(t, data)
    \/ \E t \in TableIds, rows_data \in Batches : AddRowsBulk(t, rows_data)

SpecAppend == Init /\ [][NextAppend]_vars

\* the lifecycle of the automations and of their timers
NextScheduler ==
    \/ Start
    \/ Stop
    \/ \E req \in Requests : CreateAutomation(req)
    \/ \E a \in AutomationIds : PauseAutomation(a)
    \/ \E a \in AutomationIds : ResumeAutomation(a)
    \/ \E a \in AutomationIds, f \in BOOLEAN : DeleteAutomation(a, f)

SpecScheduler == Init /\ [][NextScheduler]_vars

\* the runs of an automation, started by run_now
NextEngine ==
    \/ SetEngine
    \/ \E req \in Requests :
          nextAutomationId <= MaxEngineAutomations /\ CreateAutomation(req)
    \/ \E a \in AutomationIds : RunNow(a)
    \/ \E a \in AutomationIds : PauseAutomation(a)
    \/ \E a \in AutomationIds, f \in BOOLEAN : DeleteAutomation(a, f)

SpecEngine == Init /\ [][NextEngine]_vars

\* the action pipeline alone: automations that are created and run
NextPipeline ==
    \/ SetEngine
    \/ \E req \in Requests :
          nextAutomationId <= MaxEngineAutomations /\ CreateAutomation(req)
    \/ \E a \in AutomationIds : RunNow(a)

SpecPipeline == Init /\ [][NextPipeline]_vars

\* one automation through its whole life: created, fired by its timer or
\* run by hand, paused, resumed and deleted
NextLifecycle ==
    \/ SetEngine
    \/ Start
    \/ \E req \in Requests :
          nextAutomationId <= MaxEngineAutomations /\ CreateAutomation(req)
    \/ \E a \in AutomationIds :
          Len(automation_runs) < MaxLifecycleRuns /\ OnFire(a)
    \/ \E a \in AutomationIds :
          Len(automation_runs) < MaxLifecycleRuns /\ RunNow(a)
    \/ \E a \in AutomationIds : PauseAutomation(a)
    \/ \E a \in AutomationIds : ResumeAutomation(a)
    \/ \E a \in AutomationIds, f \in BOOLEAN : DeleteAutomation(a, f)

SpecLifecycle == Init /\ [][NextLifecycle]_vars

\* the timers of several automations firing
NextFire ==
    \/ SetEngine
    \/ Start
    \/ \E req \in Requests : CreateAutomation(req)
    \/ \E a \in AutomationIds :
          Len(automation_runs) < MaxLifecycleRuns /\ OnFire(a)

SpecFire == Init /\ [][NextFire]_vars

\* runs of different automations that overlap: two coroutines, each inside
\* run_automation, no two of them for the same automation; the automations
\* are those of the requests that name one vendor
NextDistinctRuns ==
    \/ SetEngine
    \/ \E req \in Requests : Len(req.vendors) = 1 /\ CreateAutomation(req)
    \/ \E p \in Procs, a \in AutomationIds :
          /\ InFlightOn(a, {"run_now", "fire"}) = {}
          /\ RunFind(p, "run_now", a)
    \/ \E p \in Procs, fault \in Faults : RunRecordAny(p, fault)
    \/ \E p \in Procs : RunScan(p)
    \/ \E p \in Procs : RunInsert(p)
    \/ \E p \in Procs : RunComplete(p)
    \/ \E p \in Procs : RunBookkeep(p)

SpecDistinctRuns == Init /\ [][NextDistinctRuns]_vars

\* runs of one automation that overlap: the timer callback in one coroutine
\* and a run_now in the other
NextOverlap ==
    \/ SetEngine
    \/ Start
    \/ \E req \in Requests :
          nextAutomationId <= MaxEngineAutomations /\ CreateAutomation(req)
    \/ \E a \in AutomationIds : RunFind("p1", "fire", a)
    \/ \E a \in AutomationIds : RunFind("p2", "run_now", a)
    \/ \E p \in Procs, fault \in Faults : RunRecordAny(p, fault)
    \/ \E p \in Procs : RunScan(p)
    \/ \E p \in Procs : RunInsert(p)
    \/ \E p \in Procs : RunComplete(p)
    \/ \E p \in Procs : RunBookkeep(p)

SpecOverlap == Init /\ [][NextOverlap]_vars

\* automations that are run while the user deletes tables
NextDeletedTable ==
    \/ SetEngine
    \/ \E req \in Requests :
          nextAutomationId <= MaxEngineAutomations /\ CreateAutomation(req)
    \/ \E a \in AutomationIds : RunNow(a)
    \/ \E t \in TableIds : DeleteTable(t)

SpecDeletedTable == Init /\ [][NextDeletedTable]_vars

\* the requests on the lifecycle of the automations, served concurrently
\* once the application has started the scheduler; a request names an id
\* that a create has returned
Issued(automation_id) == started /\ automation_id < nextAutomationId

NextRequests ==
    \/ Start
    \/ \E req \in Requests :
          /\ started
          /\ nextAutomationId <= MaxEngineAutomations
          /\ CreateAutomation(req)
    \/ \E p \in Procs, a \in AutomationIds : Issued(a) /\ PauseUnschedule(p, a)
    \/ \E p \in Procs : PauseUpdate(p)
    \/ \E p \in Procs, a \in AutomationIds : Issued(a) /\ ResumeFind(p, a)
    \/ \E p \in Procs : ResumeSchedule(p)
    \/ \E p \in Procs : ResumeNextRun(p)
    \/ \E p \in Procs : ResumeUpdate(p)
    \/ \E p \in Procs, a \in AutomationIds, f \in BOOLEAN :
          Issued(a) /\ DeleteFind(p, a, f)
    \/ \E p \in Procs : DeleteUnschedule(p)
    \/ \E p \in Procs : DeleteItsTable(p)
    \/ \E p \in Procs : DeleteDocument(p)

SpecRequests == Init /\ [][NextRequests]_vars

\* the history of the runs: one run at a time, started by run_now, with
\* every failure of the store, while the automation is paused, resumed and
\* deleted
NextRunHistory ==
    \/ SetEngine
    \/ \E req \in Requests :
          nextAutomationId <= MaxEngineAutomations /\ CreateAutomation(req)
    \/ \E a \in AutomationIds : RunFind("p1", "run_now", a)
    \/ \E fault \in RunFaults : RunRecordAny("p1", fault)
    \/ RunScan("p1")
    \/ RunInsert("p1")
    \/ RunComplete("p1")
    \/ RunBookkeep("p1")
    \/ \E a \in AutomationIds : PauseAutomation(a)
    \/ \E a \in AutomationIds : ResumeAutomation(a)
    \/ \E a \in AutomationIds, f \in BOOLEAN : DeleteAutomation(a, f)

SpecRunHistory == Init /\ [][NextRunHistory]_vars

\* the runs of an automation counted: two coroutines, each inside run_now,
\* with every failure of the store; the automations are those of the
\* requests that name one vendor
NextCountedRuns ==
    \/ SetEngine
    \/ \E req \in Requests :
          /\ Len(req.vendors) = 1
          /\ nextAutomationId <= MaxEngineAutomations
          /\ CreateAutomation(req)
    \/ \E p \in Procs, a \in AutomationIds : RunFind(p, "run_now", a)
    \/ \E p \in Procs, fault \in RunFaults : RunRecordAny(p, fault)
    \/ \E p \in Procs : RunScan(p)
    \/ \E p \in Procs : RunInsert(p)
    \/ \E p \in Procs : RunComplete(p)
    \/ \E p \in Procs : RunBookkeep(p)

SpecCountedRuns == Init /\ [][NextCountedRuns]_vars

\* the action pipeline message by message: the runs of the automations, one
\* at a time
NextScan ==
    \/ SetEngine
    \/ \E req \in Requests :
          nextAutomationId <= MaxEngineAutomations /\ CreateAutomation(req)
    \/ \E a \in AutomationIds : RunFind("p1", "run_now", a)
    \/ \E fault \in Faults : RunRecordAny("p1", fault)
    \/ RunScan("p1")
    \/ RunInsert("p1")
    \/ RunComplete("p1")
    \/ RunBookkeep("p1")

SpecScan == Init /\ [][NextScan]_vars

\* the scheduler stopped and started again while its timers fire: the
\* timer callbacks run in one coroutine, await by await
NextStop ==
    \/ SetEngine
    \/ Start
    \/ Stop
    \/ \E req \in Requests :
          nextAutomationId <= MaxEngineAutomations /\ CreateAutomation(req)
    \/ \E a \in AutomationIds : PauseAutomation(a)
    \/ \E a \in AutomationIds : RunFind("p1", "fire", a)
    \/ \E fault \in Faults : RunRecordAny("p1", fault)
    \/ RunScan("p1")
    \/ RunInsert("p1")
    \/ RunComplete("p1")
    \/ RunBookkeep("p1")

SpecStop == Init /\ [][NextStop]_vars

\* start called again and again, also while a call is loading, on a store
\* that holds the automations of an earlier life of the application
NextStart ==
    \/ \E req \in Requests : scheduler = "none" /\ CreateAutomation(req)
    \/ \E a \in AutomationIds : scheduler = "none" /\ PauseAutomation(a)
    \/ \E p \in Procs : StartBegin(p)
    \/ \E p \in Procs : StartFind(p)
    \/ \E p \in Procs : StartSchedule(p)
    \/ \E p \in Procs : StartNextRun(p)

SpecStart == Init /\ [][NextStart]_vars

\* the Request Parser on every text
NextParser ==
    parsed = NoParsed /\ \E n \in 1..MaxWords : \E text \in Texts(n) : Parse(text)

SpecParser == Init /\ [][NextParser]_vars

\* ------------------------------------------------------------- Claims
\* the sum of the numeric amounts of a sequence of rows
RECURSIVE SumAmounts(_)
SumAmounts(rows) ==
    IF rows = <<>> THEN 0
    ELSE (IF Head(rows).data.montant[1] = "num" THEN Head(rows).data.montant[2] ELSE 0)
         + SumAmounts(Tail(rows))

\* the timers of automation a that can fire
LiveTimers(a) == IF scheduler = "running" THEN jobs[a] ELSE 0

IsSuffixStep(old, new) ==
    /\ Len(new) > Len(old)
    /\ SubSeq(new, 1, Len(old)) = old

\* the runs the automation has gone through so far
RunsOf(a) == { i \in 1..Len(automation_runs) : automation_runs[i].automation_id = a }

\* C1: once an automation has run two or more times over the same messages,
\* its table holds no two rows with the same source message id.
C1_NoTwoRowsOfOneMessage ==
    \A a \in DOMAIN automations :
        (Cardinality(RunsOf(a)) >= 2 /\ automations[a].table_id \in DOMAIN tables)
            => LET rows == tables[automations[a].table_id].rows
               IN  \A i, j \in 1..Len(rows) :
                       (i # j /\ rows[i].source_email_id # None)
                           => rows[i].source_email_id # rows[j].source_email_id

\* C2: after any addRow, addRowsBulk, updateRow, togglePaid and deleteRow
\* the runningTotal of every table is the sum of the numeric amounts of its
\* rows.
C2_TotalIsSumOfRows ==
    \A t \in DOMAIN tables : tables[t].total_amount = SumAmounts(tables[t].rows)

\* C3: from a fresh table, after addRow and addRowsBulk only, the
\* runningTotal is the sum of the amounts of the rows whose amount is a
\* number; the other rows add nothing.
C3_AppendKeepsTotal ==
    \A t \in DOMAIN tables :
        LET numeric == SelectSeq(tables[t].rows,
                                 LAMBDA r : r.data.montant[1] = "num")
        IN  tables[t].total_amount = SumAmounts(numeric)

C3_Witness ==
    /\ result.op = "add_rows_bulk"
    /\ \E t \in DOMAIN tables :
          /\ Len(tables[t].rows) = 2
          /\ tables[t].rows[1].data.montant[1] = "num"
          /\ tables[t].rows[2].data.montant[1] # "num"
          /\ tables[t].total_amount > 0

\* C4: every step that appends rows to a table adds exactly their amounts
\* to its runningTotal, and no step changes the runningTotal without
\* appending the rows that account for the change: no state shows the rows
\* of a batch without their total or the total without the rows.
C4_BulkInsertIsAtomic ==
    [][\A t \in (DOMAIN tables) \cap (DOMAIN tables') :
          /\ IsSuffixStep(tables[t].rows, tables'[t].rows)
                => tables'[t].total_amount = tables[t].total_amount
                       + SumAmounts(SubSeq(tables'[t].rows, Len(tables[t].rows) + 1,
                                           Len(tables'[t].rows)))
          /\ tables'[t].total_amount # tables[t].total_amount
                => IsSuffixStep(tables[t].rows, tables'[t].rows)]_vars

C4_Witness ==
    /\ result.op = "add_rows_bulk"
    /\ result.rows_added = 2
    /\ \E t \in DOMAIN tables :
          /\ Len(tables[t].rows) = 2
          /\ tables[t].total_amount = 3

\* C5: after a start() that found the scheduler not started, every
\* automation with status active has exactly one live timer and every other
\* automation has none.
C5_StartRecoversActive ==
    (result.op = "start" /\ result.success)
        => \A a \in DOMAIN automations :
              IF automations[a].status = "active"
              THEN LiveTimers(a) = 1
              ELSE LiveTimers(a) = 0

\* C6: no automation id ever has more than one timer, and a schedule of an
\* id that has a timer (resume of a scheduled automation) leaves exactly one
\* timer for it in the same step.
C6_OneTimerPerId ==
    [][\A a \in AutomationIds :
          /\ jobs[a] <= 1
          /\ jobs'[a] <= 1
          /\ (result'.op = "resume" /\ result'.id = a /\ jobs[a] = 1)
                => jobs'[a] = 1]_vars

C6_Witness ==
    /\ result.op = "resume"
    /\ result.success
    /\ result.id \in DOMAIN automations
    /\ LiveTimers(result.id) = 1
    /\ automations[result.id].next_run # NoFireTime

\* C7: while the scheduler is started, an automation id has a live timer
\* exactly when its document exists with status active.
C7_TimerIffActive ==
    scheduler = "running"
        => \A a \in AutomationIds :
              (jobs[a] >= 1)
                  <=> (a \in DOMAIN automations /\ automations[a].status = "active")

\* the run record written by the last step
LastRun(runs) == runs[Len(runs)]

\* C8: a run that returns success leaves one new run record with status
\* success, completed, with emails_processed and rows_added as returned,
\* and changes the Automation only in last_error (null), run_count (plus
\* one) and last_run (now).
C8_SuccessBookkeeping ==
    [][\A a \in DOMAIN automations :
          (result'.op = "run_now" /\ result'.id = a /\ result'.success)
              => /\ Len(automation_runs') = Len(automation_runs) + 1
                 /\ SubSeq(automation_runs', 1, Len(automation_runs)) = automation_runs
                 /\ LastRun(automation_runs').automation_id = a
                 /\ LastRun(automation_runs').status = "success"
                 /\ LastRun(automation_runs').completed_at # NoTime
                 /\ LastRun(automation_runs').emails_processed = result'.emails_processed
                 /\ LastRun(automation_runs').rows_added = result'.rows_added
                 /\ automations' =
                        [automations EXCEPT
                            ![a].last_error = None,
                            ![a].run_count = @ + 1,
                            ![a].last_run = utcnow(automation_runs)]]_vars

C8_Witness ==
    /\ result.op = "run_now"
    /\ result.success
    /\ result.rows_added > 0
    /\ result.id \in DOMAIN automations
    /\ automations[result.id].run_count = 1
    /\ automations[result.id].last_error = None
    /\ \E i \in 1..Len(automation_runs) : automation_runs[i].status = "error"

\* C9: a run that fails inside the action pipeline leaves one new run record
\* with status error and the message, and changes the Automation only in
\* last_error (the message) and last_run (now): run_count and status stay.
C9_FailureBookkeeping ==
    [][\A a \in DOMAIN automations :
          (result'.op = "run_now" /\ result'.id = a /\ ~result'.success
               /\ result'.error # "Engine not set")
              => /\ Len(automation_runs') = Len(automation_runs) + 1
                 /\ SubSeq(automation_runs', 1, Len(automation_runs)) = automation_runs
                 /\ LastRun(automation_runs').automation_id = a
                 /\ LastRun(automation_runs').status = "error"
                 /\ LastRun(automation_runs').completed_at # NoTime
                 /\ LastRun(automation_runs').error = result'.error
                 /\ result'.error # None
                 /\ automations' =
                        [automations EXCEPT
                            ![a].last_error = result'.error,
                            ![a].last_run = utcnow(automation_runs)]]_vars

C9_Witness ==
    /\ result.op = "run_now"
    /\ ~result.success
    /\ result.id \in DOMAIN automations
    /\ automations[result.id].status = "paused"
    /\ automations[result.id].last_error = StoreError
    /\ automations[result.id].run_count = 1
    /\ automation_runs[Len(automation_runs)].status = "error"

RECURSIVE AddressSeq(_)
AddressSeq(vendors) ==
    IF vendors = <<>> THEN <<>>
    ELSE get_vendor_emails(Head(vendors)) \o AddressSeq(Tail(vendors))

\* the number of messages that the searches which did not raise returned
RECURSIVE CountReturned(_, _)
CountReturned(addresses, gateway) ==
    IF addresses = <<>> THEN 0
    ELSE (IF gateway[Head(addresses)] = SearchFails THEN 0
          ELSE Len(gateway[Head(addresses)]))
         + CountReturned(Tail(addresses), gateway)

\* the messages that the searches which did not raise returned
ReturnedMessages(addresses, gateway) ==
    { m \in DOMAIN Mailbox :
        \E ad \in addresses :
            /\ gateway[ad] # SearchFails
            /\ \E k \in 1..Len(gateway[ad]) : gateway[ad][k] = m }

\* the message can be read and carries an invoice: a PDF that is not a
\* terms document and has a total
CarriesInvoice(m) ==
    /\ Mailbox[m].readable
    /\ \E k \in 1..Len(Mailbox[m].attachments) :
           /\ ~Mailbox[m].attachments[k].cgv
           /\ Mailbox[m].attachments[k].pdf
           /\ Mailbox[m].attachments[k].total # 0

SourceIds(rows) == { rows[k].source_email_id : k \in 1..Len(rows) }

\* C12: a run in which the search raises for some sender addresses and
\* succeeds for others returns success, counts in emails_processed the
\* messages of the searches that succeeded and only those, and leaves in
\* the table a row for every invoice message those searches returned, with
\* no new row from anywhere else.
C12_PartialFailureIsolation ==
    [][\A a \in DOMAIN automations :
          \A gateway \in [AddressesOf(automations[a].vendors) -> SearchResults] :
              LET t == automations[a].table_id
                  addresses == AddressesOf(automations[a].vendors)
                  returned == ReturnedMessages(addresses, gateway)
              IN  ( /\ \E ad \in addresses : gateway[ad] = SearchFails
                    /\ \E ad \in addresses : gateway[ad] # SearchFails
                    /\ t \in DOMAIN tables
                    /\ RunFound("run_now", a, gateway, "none") )
                  => /\ result'.success
                     /\ result'.emails_processed =
                            CountReturned(AddressSeq(automations[a].vendors), gateway)
                     /\ t \in DOMAIN tables'
                     /\ \A m \in returned :
                            CarriesInvoice(m) => m \in SourceIds(tables'[t].rows)
                     /\ SubSeq(tables'[t].rows, 1, Len(tables[t].rows)) = tables[t].rows
                     /\ \A k \in (Len(tables[t].rows) + 1)..Len(tables'[t].rows) :
                            /\ tables'[t].rows[k].source_email_id \in returned
                            /\ CarriesInvoice(tables'[t].rows[k].source_email_id)
                     /\ result'.rows_added =
                            Len(tables'[t].rows) - Len(tables[t].rows)]_vars

C12_Witness ==
    /\ result.op = "run_now"
    /\ result.success
    /\ result.id \in DOMAIN automations
    /\ automations[result.id].vendors = <<"metro", "brake">>
    /\ result.emails_processed = 3
    /\ result.rows_added = 2

\* C13: on a started scheduler, resume(id) right after pause(id) leaves the
\* automation active with exactly one live timer and a recomputed next_run,
\* and neither step changes run_count or last_error.
C13_PauseResumeRoundTrip ==
    [][\A a \in DOMAIN automations :
          /\ (result'.op = "pause" /\ result'.id = a /\ a \in DOMAIN automations')
                => /\ automations'[a].run_count = automations[a].run_count
                   /\ automations'[a].last_error = automations[a].last_error
          /\ ( /\ scheduler = "running"
               /\ result.op = "pause" /\ result.id = a /\ result.success
               /\ result'.op = "resume" /\ result'.id = a )
                => /\ a \in DOMAIN automations'
                   /\ automations'[a].status = "active"
                   /\ jobs'[a] = 1
                   /\ automations'[a].next_run # NoFireTime
                   /\ automations'[a].run_count = automations[a].run_count
                   /\ automations'[a].last_error = automations[a].last_error]_vars

\* C14: a timer fire whose run fails leaves the timer of the automation
\* installed, the scheduler running and the timers of all other automations
\* as they were.
C14_FireFailureIsContained ==
    [][\A a \in AutomationIds :
          (result'.op = "fire" /\ result'.id = a /\ ~result'.success)
              => /\ jobs' = jobs
                 /\ jobs'[a] = 1
                 /\ scheduler' = "running"
                 /\ started']_vars

C14_Witness ==
    /\ result.op = "fire"
    /\ ~result.success
    /\ result.error = StoreError
    /\ scheduler = "running"
    /\ jobs[result.id] = 1
    /\ \E b \in AutomationIds : b # result.id /\ jobs[b] = 1
    /\ automations[result.id].last_error = StoreError

\* C15: on a started scheduler, scheduling an automation whose cron
\* expression has a field out of range (done by create and by resume) still
\* installs a timer for the id, with the default weekly Monday 9:00 trigger,
\* and persists its next_run.
C15_InvalidCronFallsBack ==
    \A a \in DOMAIN automations :
        ( /\ scheduler = "running"
          /\ result.op \in {"create", "resume"}
          /\ result.id = a
          /\ ~CronTriggerOk(automations[a].trigger.cron) )
            => /\ jobs[a] = 1
               /\ automations[a].next_run = NextFireTime(DefaultTrigger)

\* the value is "*" or lies in lo..hi
InRange(v, lo, hi) == v = Star \/ v \in lo..hi

\* C16: the cron expression of every schedule trigger that parse built has
\* five fields, each in its range: minute 0..59, hour 0..23, day 1..31,
\* month 1..12, day of week 0..6.
C16_CronIsResolvable ==
    \A a \in DOMAIN automations :
        automations[a].trigger.type = "schedule"
            => LET cron == automations[a].trigger.cron
               IN  /\ Len(cron) = 5
                   /\ InRange(cron[1], 0, 59)
                   /\ InRange(cron[2], 0, 23)
                   /\ InRange(cron[3], 1, 31)
                   /\ InRange(cron[4], 1, 12)
                   /\ InRange(cron[5], 0, 6)

\* C17: the status of every automation is active or paused, whatever has
\* been created, run, fired, paused, resumed or scheduled.
C17_StatusIsActiveOrPaused ==
    \A a \in DOMAIN automations : automations[a].status \in {"active", "paused"}

C17_Witness ==
    /\ result.op = "resume"
    /\ result.success
    /\ result.id \in DOMAIN automations
    /\ automations[result.id].status = "active"
    /\ automations[result.id].last_error = StoreError
    /\ automations[result.id].run_count = 0

\* C18: delete of an existing automation removes its timer and its document
\* and nothing else of the automations and timers; without the cascade flag
\* the tables are unchanged, with it the table of the automation is removed
\* and the other tables are unchanged.
C18_DeleteFrame ==
    [][\A a \in DOMAIN automations : \A f \in BOOLEAN :
          DeleteAutomation(a, f)
              => LET t == automations[a].table_id
                 IN  /\ result'.success
                     /\ DOMAIN automations' = DOMAIN automations \ {a}
                     /\ \A b \in DOMAIN automations' : automations'[b] = automations[b]
                     /\ jobs'[a] = 0
                     /\ \A b \in AutomationIds \ {a} : jobs'[b] = jobs[b]
                     /\ automation_runs' = automation_runs
                     /\ ~f => tables' = tables
                     /\ f => /\ DOMAIN tables' = DOMAIN tables \ {t}
                             /\ \A u \in DOMAIN tables' : tables'[u] = tables[u]]_vars

C18_Witness ==
    /\ result.op = "delete"
    /\ result.success
    /\ result.id \notin DOMAIN automations
    /\ scheduler = "running"
    /\ jobs[result.id] = 0
    /\ \E t \in DOMAIN tables :
           /\ Len(tables[t].rows) > 0
           /\ tables[t].rows[1].source_automation_id = result.id

C20_DeleteRowFrame ==
    [][\A t \in DOMAIN tables : \A r \in RowIds :
          DeleteRow(t, r)
              => /\ DOMAIN tables' = DOMAIN tables
                 /\ \A u \in DOMAIN tables \ {t} : tables'[u] = tables[u]
                 /\ tables'[t].total_amount = tables[t].total_amount
                 /\ tables'[t].rows =
                        SelectSeq(tables[t].rows, LAMBDA row : row.id # r)]_vars

C20_Witness ==
    /\ result.op = "delete_row"
    /\ result.success
    /\ result.id \in DOMAIN tables
    /\ Len(tables[result.id].rows) = 1
    /\ nextRowId = 3
    /\ tables[result.id].total_amount > SumAmounts(tables[result.id].rows)

\* ---------------------------------------------------------------------
\* the runs of automation a that are suspended at one of pcs
RunsAt(a, pcs) ==
    {q \in Procs : IF inflight[q] = Idle THEN FALSE
                   ELSE inflight[q].id = a /\ inflight[q].pc \in pcs}

\* the rows that the successful run records of automation a report
RECURSIVE ReportedRows(_, _)
ReportedRows(a, n) ==
    IF n = 0 THEN 0
    ELSE (IF automation_runs[n].automation_id = a /\ automation_runs[n].status = "success"
          THEN automation_runs[n].rows_added ELSE 0)
         + ReportedRows(a, n - 1)

\* the rows that the suspended runs of automation a have inserted and not
\* yet reported
UnreportedRows(a) ==
    LET q == CHOOSE q \in RunsAt(a, {"complete"}) : TRUE
    IN  IF RunsAt(a, {"complete"}) = {} THEN 0 ELSE inflight[q].outcome.rows_added

\* C21: runs of two different automations, writing to different tables, may
\* interleave in any way and leave what the runs leave one after the other:
\* a run that has finished its searches holds the batch and the counters
\* that the whole pipeline computes from the store as it is now, whatever
\* the other run did meanwhile; each table holds the rows of its own
\* automation, as many as its runs report, and their amounts as its total;
\* each automation counts its own successful runs, and lastRun and
\* lastError are those of its own latest run.
C21_DistinctRunsAreIsolated ==
    /\ \A p \in Procs :
          inflight[p].pc \in {"insert", "complete"} =>
              LET r == inflight[p]
                  alone == execute_actions(r.id, r.automation, tables, r.gateway,
                                           "none", nextRowId)
              IN  /\ r.pc = "insert" =>
                         /\ alone.emails_processed = r.acc.emails_processed
                         /\ alone.rows_added = Len(r.acc.all_invoices)
                         /\ alone.tables =
                                add_rows_bulk(tables, r.automation.table_id,
                                              r.acc.all_invoices, nextRowId, r.id)
                  /\ (r.pc = "complete" /\ ~r.outcome.raised
                        /\ r.outcome.rows_added = 0) =>
                         /\ alone.emails_processed = r.outcome.emails_processed
                         /\ alone.rows_added = 0
    /\ \A a \in DOMAIN automations :
          LET t == automations[a].table_id
              mine == RunsOf(a)
              counted == {i \in mine : automation_runs[i].status = "success"}
          IN  /\ \A k \in 1..Len(tables[t].rows) :
                     tables[t].rows[k].source_automation_id = a
              /\ tables[t].total_amount = SumAmounts(tables[t].rows)
              /\ Len(tables[t].rows) =
                     ReportedRows(a, Len(automation_runs)) + UnreportedRows(a)
              /\ automations[a].run_count + Cardinality(RunsAt(a, {"bookkeep"}))
                     >= Cardinality(counted)
              /\ automations[a].run_count <= Cardinality(counted)
              /\ (RunsAt(a, {"record", "scan", "insert", "complete", "bookkeep"}) = {}
                    /\ mine # {}) =>
                     LET last == CHOOSE i \in mine : \A j \in mine : j <= i
                     IN  /\ automations[a].run_count = Cardinality(counted)
                         /\ automations[a].last_run = automation_runs[last].started_at
                         /\ automations[a].last_error = automation_runs[last].error

\* the run of one automation is about to write its batch while the run of
\* another automation, started before it, has written its own and waits to
\* update its automation
C21_Witness ==
    /\ inflight["p1"].pc = "insert"
    /\ inflight["p2"].pc = "bookkeep"
    /\ inflight["p1"].id # inflight["p2"].id
    /\ inflight["p2"].run < inflight["p1"].run
    /\ inflight["p2"].outcome.rows_added = 1
    /\ automations[inflight["p1"].id].run_count = 0

\* ---------------------------------------------------------------------
\* C28: a run_now that overlaps a firing of the timer of the same
\* automation, both seeing the same new message, leaves at most one row
\* for that message: no run appends a row for a message that already has
\* a row in the table.
C28_OverlapKeepsOneRow ==
    [][\A p \in Procs :
          RunInsert(p) =>
              LET t == inflight[p].automation.table_id
                  old == IF t \in DOMAIN tables THEN tables[t].rows ELSE <<>>
                  new == IF t \in DOMAIN tables' THEN tables'[t].rows ELSE <<>>
              IN  \A k \in 1..Len(new) :
                     k > Len(old) => new[k].source_email_id \notin SourceIds(old)]_vars

\* ---------------------------------------------------------------------
\* the rows of table t, none when the table does not exist
RowsOfTable(tbls, t) == IF t \in DOMAIN tbls THEN tbls[t].rows ELSE <<>>

\* C27: one run never inserts two rows with the same source message id: the
\* rows that a step appends to a table carry pairwise different messages.
C27_BatchHasOneRowPerMessage ==
    [][\A t \in DOMAIN tables :
          LET old == RowsOfTable(tables, t)
              new == RowsOfTable(tables', t)
          IN  \A j, k \in (Len(old) + 1)..Len(new) :
                 j # k => new[j].source_email_id # new[k].source_email_id]_vars

\* C29: the rows_added that a successful run returns is the number of rows
\* that the run appended to the table of its automation, also when that
\* table no longer exists.
C29_RowsAddedIsRowsAppended ==
    [][\A a \in DOMAIN automations :
          (result'.op = "run_now" /\ result'.id = a /\ result'.success
            /\ automation_runs' # automation_runs)
          => LET t == automations[a].table_id
             IN  result'.rows_added =
                     Len(RowsOfTable(tables', t)) - Len(RowsOfTable(tables, t))]_vars

\* C30: a successful run counts in emails_processed every message that the
\* searches which did not raise returned, and rows_added is at most
\* emails_processed; a second run over the same search results returns the
\* same emails_processed and rows_added = 0.
C30_CountersOfRepeatedRun ==
    [][\A a \in DOMAIN automations :
          \A gateway \in [AddressesOf(automations[a].vendors) -> SearchResults] :
              RunFound("run_now", a, gateway, "none")
              => LET again == execute_actions(a, automations'[a], tables', gateway,
                                              "none", nextRowId')
                 IN  /\ result'.emails_processed =
                            CountReturned(AddressSeq(automations[a].vendors), gateway)
                     /\ result'.rows_added <= result'.emails_processed
                     /\ again.emails_processed = result'.emails_processed
                     /\ again.rows_added = 0]_vars

\* ---------------------------------------------------------------------
\* C22: create_automation creates exactly one new table, with no rows and
\* total 0, stores exactly one new automation with status active, run_count
\* 0 and last_error null that references that table, and on a running
\* scheduler leaves exactly one live timer for the new id.
C22_CreateRegistersOneTimer ==
    [][result'.op = "create" =>
          LET id == result'.id
              new_tables == DOMAIN tables' \ DOMAIN tables
          IN  /\ Cardinality(new_tables) = 1
              /\ DOMAIN tables \subseteq DOMAIN tables'
              /\ \A t \in new_tables :
                     /\ tables'[t].rows = <<>>
                     /\ tables'[t].total_amount = 0
                     /\ automations'[id].table_id = t
              /\ DOMAIN automations' \ DOMAIN automations = {id}
              /\ DOMAIN automations \subseteq DOMAIN automations'
              /\ automations'[id].status = "active"
              /\ automations'[id].run_count = 0
              /\ automations'[id].last_error = None
              /\ scheduler' = "running" => jobs'[id] = 1]_vars

\* ---------------------------------------------------------------------
\* C25: when a pause and a resume of the same automation have interleaved
\* and both have returned, the automation has a live timer exactly when
\* its stored status is active (for an automation whose cron expression the
\* scheduler accepts).
C25_PauseResumeRaceAgrees ==
    (scheduler = "running" /\ \A p \in Procs : inflight[p] = Idle)
    => \A a \in DOMAIN automations :
           CronTriggerOk(automations[a].trigger.cron)
           => (jobs[a] > 0 <=> automations[a].status = "active")

\* C26: in every reachable state, also while a resume and a delete of the
\* same automation interleave, every live timer belongs to an automation
\* document that exists.
C26_TimersHaveAutomations ==
    \A a \in AutomationIds : LiveTimers(a) > 0 => a \in DOMAIN automations

\* ---------------------------------------------------------------------
\* the trigger phrases of the intent gate: a creation verb followed by the
\* noun "automatisation", with or without an article; the verb
\* "automatise"; "chaque" or "tous les" followed by a unit of recurrence
HasTriggerPhrase(text) ==
    \/ \E i \in 1..Len(text) :
          /\ text[i] \in {"cr_eacute_e", "fais", "faire", "mets", "mettre"}
          /\ \/ WordAt(text, i + 1) = "automatisation"
             \/ /\ WordAt(text, i + 1) \in {"un", "une", "le", "la"}
                /\ WordAt(text, i + 2) = "automatisation"
    \/ Has(text, "automatise")
    \/ Follows(text, "chaque", {"semaine", "jour", "jours", "mois", "lundi", "mardi",
                                "mercredi", "jeudi", "vendredi"})
    \/ TousLes(text, {"jours", "semaines", "mois", "lundi", "lundis", "mardi", "mardis"})

\* C23: parse_automation_request returns null exactly for the texts that
\* hold none of the trigger phrases of the intent gate; for every other
\* text it returns a config, whose vendor list is empty when no vendor
\* alias occurs in the text.
C23_NullIffNoTriggerPhrase ==
    parsed # NoParsed =>
        /\ parsed.config.null <=> ~HasTriggerPhrase(parsed.text)
        /\ (~parsed.config.null /\ ~Has(parsed.text, "metro")) =>
               parsed.config.vendors = <<>>

\* the cron expression that belongs to a frequency, a day and an hour
CronFor(frequency, day_of_week, hour) ==
    CASE frequency = "daily" -> <<0, hour, Star, Star, Star>>
      [] frequency = "weekly" /\ day_of_week # NoDay -> <<0, hour, Star, Star, day_of_week>>
      [] frequency = "weekly" /\ day_of_week = NoDay -> <<0, hour, Star, Star, 0>>
      [] frequency = "monthly" -> <<0, hour, 1, Star, Star>>
      [] OTHER -> <<0, hour, Star, Star, 0>>

C31_OnlyActiveAutomationsRun ==
    [][\A a \in AutomationIds :
          (/\ Len(automation_runs') = Len(automation_runs) + 1
           /\ LastRun(automation_runs').automation_id = a)
              => /\ a \in DOMAIN automations
                 /\ automations[a].status = "active"]_vars

\* ---------------------------------------------------------------------
\* C32: a create_automation or a resume_automation that returns success
\* and leaves the automation with status active leaves a live timer for its
\* id; when the scheduler is not started or the trigger cannot be built the
\* call does not report an active automation.
C32_ActiveAndSuccessMeansTimer ==
    [][/\ \A req \in Requests :
             (/\ CreateAutomation(req)
              /\ result'.success
              /\ automations'[result'.id].status = "active")
                 => scheduler' = "running" /\ jobs'[result'.id] = 1
       /\ \A a \in AutomationIds :
             (/\ ResumeAutomation(a)
              /\ result'.success
              /\ automations'[a].status = "active")
                 => scheduler' = "running" /\ jobs'[a] = 1]_vars

\* ---------------------------------------------------------------------
\* what one call of run_automation for automation a does to the store:
\* nothing when the engine is not set or the automation does not exist,
\* otherwise one run record, completed with what the pipeline returned or
\* raised, and the bookkeeping of that outcome on the Automation
RunEffect(a) ==
    \/ /\ ~engine \/ a \notin DOMAIN automations
       /\ UNCHANGED <<automations, automation_runs, tables, nextRowId>>
    \/ /\ engine
       /\ a \in DOMAIN automations
       /\ \E gateway \in [AddressesOf(automations[a].vendors) -> SearchResults],
             fault \in Faults :
             LET now == utcnow(automation_runs)
                 outcome == execute_actions(a, automations[a], tables, gateway,
                                            fault, nextRowId)
             IN  /\ automation_runs' =
                        Append(automation_runs,
                               CompletedRun(RunningRun(a, now), now, outcome))
                 /\ automations' =
                        [automations EXCEPT ![a] = BookkeptAutomation(@, now, outcome)]
                 /\ tables' = outcome.tables
                 /\ nextRowId' = nextRowId + outcome.rows_added

\* C33: run_now of an id does to the store what a firing of the timer of
\* the id does: one run record, the same pipeline and the same bookkeeping
\* of its success or failure on the Automation; neither adds, removes nor
\* changes a timer.
C33_RunNowIsAFire ==
    [][\A a \in AutomationIds :
          (/\ result'.op \in {"fire", "run_now"}
           /\ result'.id = a
           /\ OnFire(a) \/ RunNow(a))
              => /\ RunEffect(a)
                 /\ UNCHANGED <<jobs, scheduler, started>>
                 /\ \A b \in DOMAIN automations :
                        /\ b \in DOMAIN automations'
                        /\ automations'[b].next_run = automations[b].next_run
                        /\ automations'[b].status = automations[b].status]_vars

\* a timer has fired, its run added a row and counted, and the timer is
\* still there
C33_Witness ==
    /\ result.op = "fire"
    /\ result.success
    /\ result.rows_added > 0
    /\ scheduler = "running"
    /\ jobs[result.id] = 1
    /\ automations[result.id].run_count = 1
    /\ LastRun(automation_runs).status = "success"

\* ---------------------------------------------------------------------
\* C34: a run record is written at its creation, with status running, and
\* at its completion, and never again: once completed_at is set, no later
\* step (of its own run, of another run, of pause, resume or delete of the
\* automation) changes or removes the record.
C34_CompletedRunsAreImmutable ==
    [][/\ Len(automation_runs') >= Len(automation_runs)
       /\ \A i \in 1..Len(automation_runs) :
             automation_runs[i].completed_at # NoTime
                 => automation_runs'[i] = automation_runs[i]
       /\ \A i \in 1..Len(automation_runs') :
             i > Len(automation_runs)
                 => /\ automation_runs'[i].status = "running"
                    /\ automation_runs'[i].completed_at = NoTime]_vars

\* ---------------------------------------------------------------------
\* the run records of automation a with status success
SuccessfulRuns(a) == {i \in RunsOf(a) : automation_runs[i].status = "success"}

FirstInvoice(atts, i) ==
    /\ ~atts[i].cgv /\ atts[i].pdf /\ atts[i].total # 0
    /\ \A j \in 1..(i - 1) : atts[j].cgv \/ ~atts[j].pdf \/ atts[j].total = 0

\* how many times message m occurs in the search results work
Occurrences(work, m) == Cardinality({k \in 1..Len(work) : work[k][1] = m})

C37_StatsAgreeWithRows ==
    \A t \in DOMAIN tables :
        LET st == get_table_stats(tables, t)
            rows == tables[t].rows
        IN  ~st.raised =>
                /\ st.total_amount = SumAmounts(rows)
                /\ st.paid_count + st.unpaid_count = st.row_count
                /\ st.row_count = Len(rows)
                /\ st.unpaid_amount =
                       SumAmounts(SelectSeq(rows, LAMBDA r : ~r.data.payee))

\* ---------------------------------------------------------------------
\* C38: stop cancels the pending timers: from a stop to the next start no
\* timer is live and none fires; the runs that are in flight when stop is
\* called are not interrupted, they go on to complete their run record and
\* the bookkeeping of the Automation; the next start installs one timer
\* for each active automation and none for the others.
C38_StopCancelsTimersOnly ==
    /\ [](~started => \A a \in AutomationIds : LiveTimers(a) = 0)
    /\ [][/\ \A a \in AutomationIds : RunFind("p1", "fire", a) => started
          /\ Stop => inflight' = inflight
          /\ (Start /\ scheduler = "stopped")
                => \A a \in AutomationIds :
                       jobs'[a] = IF a \in ActiveIds(automations') THEN 1 ELSE 0]_vars

\* ---------------------------------------------------------------------
\* the coroutines that are inside start, loading the automations
Loading ==
    {q \in Procs : inflight[q].pc \in {"load_find", "load_schedule", "load_next_run"}}

\* C39: start on a scheduler that is started, also while the first call is
\* still loading the automations, changes nothing: the scheduler, the
\* timers, the automations and the loading in progress are as before; no
\* automation is loaded by two calls or scheduled twice by one, and no
\* automation has more than one timer.
C39_StartIsIdempotent ==
    /\ [](/\ Cardinality(Loading) <= 1
          /\ \A a \in AutomationIds : jobs[a] <= 1
          /\ \A q \in Loading :
                LET todo == inflight[q].todo
                IN  \A j, k \in 1..Len(todo) :
                       /\ j # k => todo[j][1] # todo[k][1]
                       /\ inflight[q].pc # "load_find" => jobs[todo[j][1]] = 0
                                \/ (j = 1 /\ inflight[q].pc = "load_next_run"))
    /\ [][\A p \in Procs :
             (started /\ StartBegin(p))
                 => /\ UNCHANGED <<scheduler, started, jobs, automations, inflight>>
                    /\ ~result'.success]_vars

\* a second start has returned while the first one has installed the timer
\* of one automation and has the next one still to schedule
C39_Witness ==
    /\ result.op = "start"
    /\ ~result.success
    /\ inflight["p1"].pc = "load_schedule"
    /\ Len(inflight["p1"].todo) = 1
    /\ jobs[1] = 1
    /\ jobs[2] = 0

====
